---- MODULE Spec2Model ----
(***************************************************************************)
(* A model of pdf_to_json_extractor.py: the text normaliser (clean_text),  *)
(* the amount normaliser (parse_amount), the record validator              *)
(* (validate_data), the field extraction of parse_pdf_content and the      *)
(* batch loop of process_pdfs.                                             *)
(*                                                                         *)
(* A Python str is modelled as a sequence of characters, each character a  *)
(* one-element TLA+ string; characters outside ASCII are written as named  *)
(* atoms ("<U+00A0>").                                                     *)
(***************************************************************************)
EXTENDS Integers, Sequences, FiniteSets, TLC

VARIABLES
    pc,             \* control position of the running program
    fn_arg,         \* argument of the function under call (function specifications)
    fn_ret,         \* values returned so far by the function under call
    config_file,    \* config.json as load_config finds it
    pdf_files,      \* process_pdfs: the documents found under Resources, in order
    idx,            \* process_pdfs: position of the for loop in pdf_files
    loc_text,       \* process_pdfs: its local text, <<>> while unbound
    loc_data,       \* process_pdfs: its local data, <<>> while unbound
    exc,            \* process_pdfs: the exception being propagated, if any
    success_count,  \* process_pdfs: documents written
    error_count,    \* process_pdfs: documents that failed
    output          \* the files written under output/, in the order written

batch_vars == <<pdf_files, idx, loc_text, loc_data, exc, success_count, error_count, output>>

vars == <<pc, fn_arg, fn_ret, config_file, batch_vars>>

-----------------------------------------------------------------------------
(* Characters                                                              *)

NBSP == "<U+00A0>"      \* NO-BREAK SPACE: whitespace, not ASCII
EACUTE == "<U+00E9>"    \* a letter outside ASCII
EURO == "<U+20AC>"
POUND == "<U+00A3>"
YEN == "<U+00A5>"

\* The characters str.isspace() and the regex class \s accept.
AsciiSpace == {" ", "\t", "\n", "\r", "\f"}
Whitespace == AsciiSpace \cup {NBSP}

\* The characters outside \x00-\x7F.
NonAscii == {NBSP, EACUTE, EURO, POUND, YEN}

Digits == {"0", "1", "2", "3", "4", "5", "6", "7", "8", "9"}

Min(S) == CHOOSE i \in S : \A j \in S : i <= j

Max(S) == CHOOSE i \in S : \A j \in S : j <= i

\* Sequences over S of length at most n.
SeqsUpTo(S, n) == UNION {[1..k -> S] : k \in 0..n}

\* The first position from lo to hi whose character is outside the class
\* (inside it when neg), hi + 1 when there is none.
FirstOutside(t, lo, hi, cs, neg) ==
    CHOOSE i \in lo..(hi + 1) :
        /\ i = hi + 1 \/ (t[i] \in cs) = neg
        /\ \A j \in lo..(i - 1) : (t[j] \in cs) # neg

RECURSIVE LastOutside(_, _, _, _)
\* The last position from lo to hi whose character is outside the class,
\* lo - 1 when there is none.
LastOutside(t, lo, hi, cs) ==
    IF lo > hi THEN hi
    ELSE IF lo = hi THEN (IF t[lo] \in cs THEN lo - 1 ELSE lo)
    ELSE LET mid == (lo + hi) \div 2
             right == LastOutside(t, mid + 1, hi, cs)
         IN  IF right > mid THEN right ELSE LastOutside(t, lo, mid, cs)

RECURSIVE Flatten(_, _, _)
\* The concatenation of parts[lo], ..., parts[hi].
Flatten(parts, lo, hi) ==
    IF lo > hi THEN <<>>
    ELSE IF lo = hi THEN parts[lo]
    ELSE LET mid == (lo + hi) \div 2
         IN  Flatten(parts, lo, mid) \o Flatten(parts, mid + 1, hi)

\* re.sub(r'[cls]{lo,}', repl, s): every maximal run of at least lo
\* characters of cls is replaced by repl; shorter runs are kept.
ReSubRuns(s, cls, lo, repl) ==
    LET RunLength(i) == FirstOutside(s, i, Len(s), cls, FALSE) - LastOutside(s, 1, i, cls) - 1
        Part(i) == IF s[i] \notin cls \/ RunLength(i) < lo THEN <<s[i]>>
                   ELSE IF i = 1 \/ s[i - 1] \notin cls THEN repl
                   ELSE <<>>
    IN  Flatten([i \in 1..Len(s) |-> Part(i)], 1, Len(s))

RECURSIVE LStrip(_)
LStrip(s) == IF s # <<>> /\ Head(s) \in Whitespace THEN LStrip(Tail(s)) ELSE s

RECURSIVE RStrip(_)
RStrip(s) ==
    IF s # <<>> /\ s[Len(s)] \in Whitespace THEN RStrip(SubSeq(s, 1, Len(s) - 1)) ELSE s

\* str.strip()
Strip(s) == RStrip(LStrip(s))

-----------------------------------------------------------------------------
(* clean_text                                                              *)

\* clean_text with the third substitution (horizontal whitespace) left out.
clean_text_no_hspace(text) ==
    LET t1 == ReSubRuns(text, Whitespace, 1, <<" ">>)
        t2 == ReSubRuns(t1, NonAscii, 1, <<>>)
        t4 == ReSubRuns(t2, {"\n"}, 3, <<"\n", "\n">>)
    IN  Strip(t4)

clean_text(text) ==
    LET t1 == ReSubRuns(text, Whitespace, 1, <<" ">>)             \* \s+ -> ' '
        t2 == ReSubRuns(t1, NonAscii, 1, <<>>)                    \* [^\x00-\x7F]+ -> ''
        t3 == ReSubRuns(t2, Whitespace \ {"\n"}, 1, <<" ">>)      \* [^\S\n]+ -> ' '
        t4 == ReSubRuns(t3, {"\n"}, 3, <<"\n", "\n">>)            \* \n{3,} -> '\n\n'
    IN  Strip(t4)

-----------------------------------------------------------------------------
(* Numbers in text: float(), int digits, the '.2f' format                  *)

DigitVal(c) ==
    CASE c = "0" -> 0 [] c = "1" -> 1 [] c = "2" -> 2 [] c = "3" -> 3
      [] c = "4" -> 4 [] c = "5" -> 5 [] c = "6" -> 6 [] c = "7" -> 7
      [] c = "8" -> 8 [] c = "9" -> 9

DigitChar(d) == <<"0", "1", "2", "3", "4", "5", "6", "7", "8", "9">>[d + 1]

RECURSIVE StrToNat(_)
\* The number a sequence of digits writes (0 for the empty sequence).
StrToNat(ds) ==
    IF ds = <<>> THEN 0
    ELSE 10 * StrToNat(SubSeq(ds, 1, Len(ds) - 1)) + DigitVal(ds[Len(ds)])

RECURSIVE NatToStr(_)
NatToStr(n) ==
    IF n < 10 THEN <<DigitChar(n)>> ELSE Append(NatToStr(n \div 10), DigitChar(n % 10))

AllDigits(s) == \A i \in 1..Len(s) : s[i] \in Digits

AllZeros(s) == \A i \in 1..Len(s) : s[i] = "0"

\* Index of the first "." of s, or 0.
DotIndex(s) ==
    IF \E i \in 1..Len(s) : s[i] = "."
    THEN CHOOSE i \in 1..Len(s) : s[i] = "." /\ \A j \in 1..(i - 1) : s[j] # "."
    ELSE 0

NoFloat == [ok |-> FALSE, neg |-> FALSE, whole |-> 0, frac |-> <<>>]

\* float(str) for the decimal notation: whitespace around it, an optional
\* sign, digits with at most one ".", at least one digit.  The value is kept exact as sign, whole part
\* and fractional digits.  Everything else is a ValueError (ok = FALSE); the
\* exponent, "inf", "nan" and "_" notations use characters no modelled text
\* holds.
ParseFloat(str) ==
    LET s == Strip(str)
        signed == s # <<>> /\ Head(s) \in {"-", "+"}
        body == IF signed THEN Tail(s) ELSE s
        dot == DotIndex(body)
        w == IF dot = 0 THEN body ELSE SubSeq(body, 1, dot - 1)
        f == IF dot = 0 THEN <<>> ELSE SubSeq(body, dot + 1, Len(body))
    IN  IF AllDigits(w) /\ AllDigits(f) /\ Len(w) + Len(f) > 0
        THEN [ok |-> TRUE, neg |-> signed /\ Head(s) = "-",
              whole |-> StrToNat(w), frac |-> f]
        ELSE NoFloat

\* Whether the digits after the second fractional digit round the value up
\* at two decimals.  A remainder of exactly one half (a 5 followed by zeros
\* only) is rounded as the binary double nearest the value lies, which this
\* model does not compute: no modelled text has such a remainder, and the
\* CASE has no arm for it.
RoundsUp(rest) ==
    CASE rest = <<>> \/ DigitVal(rest[1]) < 5 -> FALSE
      [] rest # <<>> /\ DigitVal(rest[1]) > 5 -> TRUE
      [] rest # <<>> /\ DigitVal(rest[1]) = 5 /\ ~AllZeros(Tail(rest)) -> TRUE

\* f"{x:.2f}" of the value with sign neg, whole part whole and fractional
\* digits frac.
Format2f(neg, whole, frac) ==
    LET padded == frac \o <<"0", "0">>
        c == 10 * DigitVal(padded[1]) + DigitVal(padded[2])
             + (IF RoundsUp(SubSeq(frac, 3, Len(frac))) THEN 1 ELSE 0)
        w == IF c = 100 THEN whole + 1 ELSE whole
    IN  (IF neg THEN <<"-">> ELSE <<>>)
        \o NatToStr(w) \o <<".", DigitChar((c % 100) \div 10), DigitChar(c % 10)>>

-----------------------------------------------------------------------------
(* parse_amount                                                            *)

RemoveChars(s, cls) == SelectSeq(s, LAMBDA c : c \notin cls)

ReplaceChars(s, cls, to) == [i \in 1..Len(s) |-> IF s[i] \in cls THEN to ELSE s[i]]

\* Lines 92-102 and 106-107: the token as handed to float().
AmountToken(text) ==
    LET a1 == Strip(text)
        a2 == RemoveChars(a1, {POUND, "$", EURO, YEN})          \* [£$€¥]
        a3 == RemoveChars(a2, {","} \cup Whitespace)            \* [,\s]
        a4 == IF a3 = <<"-">> THEN <<"0">> ELSE a3              \* ^-$ -> 0
        a5 == ReplaceChars(a4, {"i", "I", "l"}, "1")
        a6 == ReplaceChars(a5, {"O", "o"}, "0")
    IN  IF a6 # <<>> /\ Head(a6) = "(" /\ a6[Len(a6)] = ")"
        THEN <<"-">> \o SubSeq(a6, 2, Len(a6) - 1)
        ELSE a6

\* The shift of line 116 taken from 1000 up, as line 114's comment words it.
ShiftedAmount_from1000(v) ==
    IF ~v.neg /\ v.whole >= 1000 /\ AllZeros(v.frac)
       /\ v.whole \div 100 >= 10
       /\ (v.whole \div 100 < 10000 \/ (v.whole \div 100 = 10000 /\ v.whole % 100 = 0))
    THEN Format2f(FALSE, v.whole \div 100,
                  <<DigitChar((v.whole % 100) \div 10), DigitChar(v.whole % 10)>>)
    ELSE Format2f(v.neg, v.whole, v.frac)

\* Lines 114-122: a whole number from 10000 up is divided by 100 when the
\* quotient lies in [10, 10000]; the result is formatted with two decimals.
ShiftedAmount(v) ==
    IF /\ ~v.neg /\ v.whole >= 1000 /\ AllZeros(v.frac)           \* line 114
       /\ v.whole >= 10000                                         \* line 116
       /\ v.whole \div 100 >= 10                                   \* line 119
       /\ (v.whole \div 100 < 10000
           \/ (v.whole \div 100 = 10000 /\ v.whole % 100 = 0))
    THEN Format2f(FALSE, v.whole \div 100,
                  <<DigitChar((v.whole % 100) \div 10), DigitChar(v.whole % 10)>>)
    ELSE Format2f(v.neg, v.whole, v.frac)

parse_amount(text) ==
    IF text = <<>> THEN <<>>
    ELSE LET v == ParseFloat(AmountToken(text))
         IN  IF v.ok THEN ShiftedAmount(v) ELSE <<>>

-----------------------------------------------------------------------------
(* Regular expressions: re.search and re.match with re.IGNORECASE          *)
(*                                                                         *)
(* A pattern is a sequence of atoms, matched by backtracking in the order  *)
(* Python's re tries things: a greedy repeat from its longest run down, a  *)
(* lazy one from its shortest up, the branches of an alternation from left *)
(* to right.  The text is matched folded to lower case and the patterns    *)
(* are written in lower case, which is what IGNORECASE does on ASCII.      *)

UpperLetters ==
    <<"A", "B", "C", "D", "E", "F", "G", "H", "I", "J", "K", "L", "M",
      "N", "O", "P", "Q", "R", "S", "T", "U", "V", "W", "X", "Y", "Z">>

LowerLetters ==
    <<"a", "b", "c", "d", "e", "f", "g", "h", "i", "j", "k", "l", "m",
      "n", "o", "p", "q", "r", "s", "t", "u", "v", "w", "x", "y", "z">>

Letters == {LowerLetters[i] : i \in 1..26}

FoldChar == [c \in {UpperLetters[i] : i \in 1..26} |->
                LowerLetters[CHOOSE i \in 1..26 : UpperLetters[i] = c]]

\* str.lower() on ASCII
Fold(s) == [i \in 1..Len(s) |-> IF s[i] \in DOMAIN FoldChar THEN FoldChar[s[i]] ELSE s[i]]

Inf == 1000000     \* an unbounded repeat

\* one literal character
L(ch) == [t |-> "l", ch |-> ch]

\* a literal word, as a pattern of one atom
Lit(w) == <<[t |-> "lit", w |-> w]>>

\* [cs]{lo,hi}, greedy
Cls(cs, lo, hi) == [t |-> "c", cs |-> cs, neg |-> FALSE, lo |-> lo, hi |-> hi, lazy |-> FALSE]

\* [^cs]{lo,hi}, greedy
NotCls(cs, lo, hi) == [t |-> "c", cs |-> cs, neg |-> TRUE, lo |-> lo, hi |-> hi, lazy |-> FALSE]

\* [^cs]{lo,hi}?, lazy
NotClsLazy(cs, lo, hi) == [t |-> "c", cs |-> cs, neg |-> TRUE, lo |-> lo, hi |-> hi, lazy |-> TRUE]

\* (?:a|b|...), each branch a pattern
Alt(branches) == [t |-> "alt", alts |-> branches]

\* (?:p)?
Opt(p) == Alt(<<p, <<>>>>)

\* the start and the end of capturing group name
Open(name) == [t |-> "open", name |-> name]

Close(name) == [t |-> "close", name |-> name]

\* (?!p)
NotAhead(p) == [t |-> "nla", re |-> p]

NoMatch == [ok |-> FALSE, end |-> 0, s |-> <<>>, e |-> <<>>]

\* no group entered yet
NoGroups == [s |-> <<>>, e |-> <<>>]

\* How many characters from position pos on are in the class, at most hi.
RunFrom(t, pos, cs, neg, hi) ==
    FirstOutside(t, pos, IF pos + hi - 1 < Len(t) THEN pos + hi - 1 ELSE Len(t), cs, neg) - pos

\* Of attempts <<rank, outcome>>, the outcome of the match of lowest rank:
\* the attempt a backtracking matcher, trying them by rank, stops at.
FirstOk(attempts) ==
    IF \A x \in attempts : ~x[2].ok THEN NoMatch
    ELSE (CHOOSE x \in attempts : x[2].ok /\ \A y \in attempts : y[2].ok => x[1] <= y[1])[2]

\* the i-th atom of the pattern is of kind k
Is(re, i, k) == i <= Len(re) /\ re[i].t = k

RECURSIVE ReMatch(_, _, _, _, _)
\* The first match, in backtracking order, of the atoms of pattern re from
\* the i-th on at position pos of the folded text t, the groups in caps
\* entered already: where it ends and where its groups start and end.
ReMatch(re, i, t, pos, caps) ==
    CASE i > Len(re) -> [ok |-> TRUE, end |-> pos, s |-> caps.s, e |-> caps.e]
      [] Is(re, i, "l") ->
            IF pos <= Len(t) /\ t[pos] = re[i].ch
            THEN ReMatch(re, i + 1, t, pos + 1, caps) ELSE NoMatch
      [] Is(re, i, "lit") ->
            IF pos + Len(re[i].w) - 1 <= Len(t)
               /\ SubSeq(t, pos, pos + Len(re[i].w) - 1) = re[i].w
            THEN ReMatch(re, i + 1, t, pos + Len(re[i].w), caps) ELSE NoMatch
      [] Is(re, i, "c") ->
            \* greedy: the longest repeat first; lazy: the shortest
            FirstOk({<<IF re[i].lazy THEN k ELSE 0 - k, ReMatch(re, i + 1, t, pos + k, caps)>> :
                        k \in re[i].lo..RunFrom(t, pos, re[i].cs, re[i].neg, re[i].hi)})
      [] Is(re, i, "alt") ->
            \* the branches in order, each followed by the rest
            FirstOk({<<j, ReMatch(re[i].alts[j] \o SubSeq(re, i + 1, Len(re)), 1, t, pos, caps)>> :
                        j \in 1..Len(re[i].alts)})
      [] Is(re, i, "open") ->
            ReMatch(re, i + 1, t, pos, [caps EXCEPT !.s = (re[i].name :> pos) @@ @])
      [] Is(re, i, "close") ->
            ReMatch(re, i + 1, t, pos, [caps EXCEPT !.e = (re[i].name :> pos) @@ @])
      [] Is(re, i, "nla") ->
            IF ReMatch(re[i].re, 1, t, pos, NoGroups).ok THEN NoMatch
            ELSE ReMatch(re, i + 1, t, pos, caps)

\* re.search(re, text, re.IGNORECASE): the match at the leftmost position
\* where there is one.
ReSearch(re, text) ==
    FirstOk({<<pos, ReMatch(re, 1, Fold(text), pos, NoGroups)>> : pos \in 1..(Len(text) + 1)})

\* match.group(name)
Group(text, m, name) == SubSeq(text, m.s[name], m.e[name] - 1)

-----------------------------------------------------------------------------
(* datetime.strptime and strftime                                          *)
(*                                                                         *)
(* strptime turns the format into a regular expression, one group per      *)
(* directive, matches it at the start of the string with IGNORECASE, and   *)
(* rejects a match that leaves text unconverted.                           *)

S0 == Cls(Whitespace, 0, Inf)       \* \s*
S1 == Cls(Whitespace, 1, Inf)       \* \s+
D(lo, hi) == Cls(Digits, lo, hi)    \* \d{lo,hi}

NonZero == Digits \ {"0"}

\* %d: 3[0-1]|[1-2]\d|0[1-9]|[1-9]| [1-9]
dir_d ==
    <<Open("d"),
      Alt(<< <<L("3"), Cls({"0", "1"}, 1, 1)>>, <<Cls({"1", "2"}, 1, 1), D(1, 1)>>,
             <<L("0"), Cls(NonZero, 1, 1)>>, <<Cls(NonZero, 1, 1)>>,
             <<L(" "), Cls(NonZero, 1, 1)>> >>),
      Close("d")>>

\* %m: 1[0-2]|0[1-9]|[1-9]
dir_m ==
    <<Open("m"),
      Alt(<< <<L("1"), Cls({"0", "1", "2"}, 1, 1)>>, <<L("0"), Cls(NonZero, 1, 1)>>,
             <<Cls(NonZero, 1, 1)>> >>),
      Close("m")>>

\* %Y: \d\d\d\d
dir_Y == <<Open("Y"), D(4, 4), Close("Y")>>

\* %y: \d\d
dir_y == <<Open("y"), D(2, 2), Close("y")>>

a_month ==
    <<Lit(<<"j", "a", "n">>), Lit(<<"f", "e", "b">>), Lit(<<"m", "a", "r">>),
      Lit(<<"a", "p", "r">>), Lit(<<"m", "a", "y">>), Lit(<<"j", "u", "n">>),
      Lit(<<"j", "u", "l">>), Lit(<<"a", "u", "g">>), Lit(<<"s", "e", "p">>),
      Lit(<<"o", "c", "t">>), Lit(<<"n", "o", "v">>), Lit(<<"d", "e", "c">>)>>

f_month ==
    <<Lit(<<"j", "a", "n", "u", "a", "r", "y">>), Lit(<<"f", "e", "b", "r", "u", "a", "r", "y">>),
      Lit(<<"m", "a", "r", "c", "h">>), Lit(<<"a", "p", "r", "i", "l">>),
      Lit(<<"m", "a", "y">>), Lit(<<"j", "u", "n", "e">>), Lit(<<"j", "u", "l", "y">>),
      Lit(<<"a", "u", "g", "u", "s", "t">>),
      Lit(<<"s", "e", "p", "t", "e", "m", "b", "e", "r">>),
      Lit(<<"o", "c", "t", "o", "b", "e", "r">>),
      Lit(<<"n", "o", "v", "e", "m", "b", "e", "r">>),
      Lit(<<"d", "e", "c", "e", "m", "b", "e", "r">>)>>

\* %b: the abbreviated month names
dir_b == <<Open("b"), Alt(a_month), Close("b")>>

\* %B: the full month names, the longest first (the sort is stable)
dir_B ==
    <<Open("B"),
      Alt(<<f_month[9], f_month[2], f_month[11], f_month[12], f_month[1], f_month[10],
            f_month[8], f_month[3], f_month[4], f_month[6], f_month[7], f_month[5]>>),
      Close("B")>>

\* %H: 2[0-3]|[0-1]\d|\d
dir_H ==
    <<Open("H"),
      Alt(<< <<L("2"), Cls({"0", "1", "2", "3"}, 1, 1)>>, <<Cls({"0", "1"}, 1, 1), D(1, 1)>>,
             <<D(1, 1)>> >>),
      Close("H")>>

\* %I: 1[0-2]|0[1-9]|[1-9]
dir_I ==
    <<Open("I"),
      Alt(<< <<L("1"), Cls({"0", "1", "2"}, 1, 1)>>, <<L("0"), Cls(NonZero, 1, 1)>>,
             <<Cls(NonZero, 1, 1)>> >>),
      Close("I")>>

\* %M: [0-5]\d|\d
dir_M ==
    <<Open("M"),
      Alt(<< <<Cls({"0", "1", "2", "3", "4", "5"}, 1, 1), D(1, 1)>>, <<D(1, 1)>> >>),
      Close("M")>>

\* %S: 6[0-1]|[0-5]\d|\d
dir_S ==
    <<Open("S"),
      Alt(<< <<L("6"), Cls({"0", "1"}, 1, 1)>>,
             <<Cls({"0", "1", "2", "3", "4", "5"}, 1, 1), D(1, 1)>>, <<D(1, 1)>> >>),
      Close("S")>>

\* %p: am|pm
dir_p == <<Open("p"), Alt(<<Lit(<<"a", "m">>), Lit(<<"p", "m">>)>>), Close("p")>>

\* '%d/%m/%Y'
fmt_dsmsY ==
    dir_d \o Lit(<<"/">>) \o dir_m \o Lit(<<"/">>) \o dir_Y

\* '%d-%m-%Y'
fmt_dhmhY ==
    dir_d \o Lit(<<"-">>) \o dir_m \o Lit(<<"-">>) \o dir_Y

\* '%d/%m/%y'
fmt_dsmsy ==
    dir_d \o Lit(<<"/">>) \o dir_m \o Lit(<<"/">>) \o dir_y

\* '%d-%m-%y'
fmt_dhmhy ==
    dir_d \o Lit(<<"-">>) \o dir_m \o Lit(<<"-">>) \o dir_y

\* '%d-%b-%Y %H:%M:%S'
fmt_dhbhY_HcMcS ==
    dir_d \o Lit(<<"-">>) \o dir_b \o Lit(<<"-">>) \o dir_Y \o <<S1>> \o dir_H \o Lit(<<":">>)
    \o dir_M \o Lit(<<":">>) \o dir_S

\* '%d-%b-%Y %I:%M:%S%p'
fmt_dhbhY_IcMcSp ==
    dir_d \o Lit(<<"-">>) \o dir_b \o Lit(<<"-">>) \o dir_Y \o <<S1>> \o dir_I \o Lit(<<":">>)
    \o dir_M \o Lit(<<":">>) \o dir_S \o dir_p

\* '%d-%b-%Y'
fmt_dhbhY ==
    dir_d \o Lit(<<"-">>) \o dir_b \o Lit(<<"-">>) \o dir_Y

\* '%d-%b-%Y %H.%M.%S'
fmt_dhbhY_HpMpS ==
    dir_d \o Lit(<<"-">>) \o dir_b \o Lit(<<"-">>) \o dir_Y \o <<S1>> \o dir_H \o Lit(<<".">>)
    \o dir_M \o Lit(<<".">>) \o dir_S

\* '%d-%b-%Y %I.%M.%S%p'
fmt_dhbhY_IpMpSp ==
    dir_d \o Lit(<<"-">>) \o dir_b \o Lit(<<"-">>) \o dir_Y \o <<S1>> \o dir_I \o Lit(<<".">>)
    \o dir_M \o Lit(<<".">>) \o dir_S \o dir_p

\* '%d-%b-%Y %H.%M%S%p'
fmt_dhbhY_HpMSp ==
    dir_d \o Lit(<<"-">>) \o dir_b \o Lit(<<"-">>) \o dir_Y \o <<S1>> \o dir_H \o Lit(<<".">>)
    \o dir_M \o dir_S \o dir_p

\* '%d-%b-%Y %H %M %S'
fmt_dhbhY_H_M_S ==
    dir_d \o Lit(<<"-">>) \o dir_b \o Lit(<<"-">>) \o dir_Y \o <<S1>> \o dir_H \o <<S1>> \o dir_M
    \o <<S1>> \o dir_S

\* '%d-%b-%Y %H %M %S%p'
fmt_dhbhY_H_M_Sp ==
    dir_d \o Lit(<<"-">>) \o dir_b \o Lit(<<"-">>) \o dir_Y \o <<S1>> \o dir_H \o <<S1>> \o dir_M
    \o <<S1>> \o dir_S \o dir_p

\* '%d %B %Y'
fmt_d_B_Y ==
    dir_d \o <<S1>> \o dir_B \o <<S1>> \o dir_Y

\* '%d %b %Y'
fmt_d_b_Y ==
    dir_d \o <<S1>> \o dir_b \o <<S1>> \o dir_Y

\* '%Y-%m-%d'
fmt_Yhmhd ==
    dir_Y \o Lit(<<"-">>) \o dir_m \o Lit(<<"-">>) \o dir_d

\* '%Y/%m/%d'
fmt_Ysmsd ==
    dir_Y \o Lit(<<"/">>) \o dir_m \o Lit(<<"/">>) \o dir_d

NoDate == [ok |-> FALSE, year |-> 0, month |-> 0, day |-> 0]

IsLeap(y) == (y % 4 = 0 /\ y % 100 # 0) \/ y % 400 = 0

DaysInMonth(y, m) ==
    IF m = 2 THEN (IF IsLeap(y) THEN 29 ELSE 28)
    ELSE IF m \in {4, 6, 9, 11} THEN 30 ELSE 31

\* The number of the month whose name (one of names, folded) is w.
MonthNumber(names, w) == CHOOSE i \in 1..12 : names[i] = Lit(Fold(w))

\* datetime.strptime(s, format): the date of the datetime, or a ValueError
\* (ok = FALSE): no match, unconverted data, year 0, a day the month does
\* not have, a second above 59.  Hours and minutes are bounded by their
\* directives and do not reach the date.
Strptime(s, format) ==
    LET m == ReMatch(format, 1, Fold(s), 1, NoGroups)
    IN  IF ~m.ok \/ m.end # Len(s) + 1 THEN NoDate
        ELSE LET year == IF "Y" \in DOMAIN m.s THEN StrToNat(Group(s, m, "Y"))
                         ELSE LET y == StrToNat(Group(s, m, "y"))
                              IN  IF y <= 68 THEN 2000 + y ELSE 1900 + y
                 month == IF "m" \in DOMAIN m.s THEN StrToNat(Group(s, m, "m"))
                          ELSE IF "b" \in DOMAIN m.s
                          THEN MonthNumber(a_month, Group(s, m, "b"))
                          ELSE MonthNumber(f_month, Group(s, m, "B"))
                 day == StrToNat(LStrip(Group(s, m, "d")))
                 second == IF "S" \in DOMAIN m.s THEN StrToNat(Group(s, m, "S")) ELSE 0
             IN  IF year >= 1 /\ day <= DaysInMonth(year, month) /\ second <= 59
                 THEN [ok |-> TRUE, year |-> year, month |-> month, day |-> day]
                 ELSE NoDate

TwoDigits(n) == <<DigitChar(n \div 10), DigitChar(n % 10)>>

\* The year with four digits, zeros in front.
FourDigits(n) == TwoDigits(n \div 100) \o TwoDigits(n % 100)

\* date.strftime('%d/%m/%Y').  The C library writes %Y: with zeros in front
\* up to four digits when pads, as the number is when not; the two differ
\* below the year 1000.
Strftime(date, pads) ==
    TwoDigits(date.day) \o <<"/">> \o TwoDigits(date.month) \o <<"/">>
    \o (IF pads THEN FourDigits(date.year) ELSE NatToStr(date.year))

-----------------------------------------------------------------------------
(* validate_data                                                           *)

required_fields == <<"Invoice Number", "Date", "Net", "Total">>

\* data.get(field) is falsy: the key is absent or its value is empty.
Falsy(data, field) == field \notin DOMAIN data \/ data[field] = <<>>

\* Only the first of the missing fields.
missing_fields_first(data) ==
    LET all == SelectSeq(required_fields, LAMBDA f : Falsy(data, f))
    IN  IF all = <<>> THEN <<>> ELSE <<all[1]>>

\* Line 44: the required fields that are missing, in their listed order.
missing_fields(data) == SelectSeq(required_fields, LAMBDA f : Falsy(data, f))

\* A parsed amount in cents.  The amounts the program handles have two
\* decimals; more would need an arm here.
Cents(v) ==
    LET padded == v.frac \o <<"0", "0">>
        c == 100 * v.whole + 10 * DigitVal(padded[1]) + DigitVal(padded[2])
    IN  CASE AllZeros(SubSeq(v.frac, 3, Len(v.frac))) -> IF v.neg THEN 0 - c ELSE c

Abs(n) == IF n < 0 THEN 0 - n ELSE n

\* Line 56: abs((net + vat) - total) > 0.02, in cents.  At a difference of
\* exactly two cents the doubles decide (1.02 - 1.0 is above 0.02, 120.0 -
\* 120.02 below it): both outcomes are possible.
AmountMismatch(net, vat, total) ==
    LET diff == Abs((net + vat) - total)
    IN  IF diff > 2 THEN {TRUE} ELSE IF diff = 2 THEN {TRUE, FALSE} ELSE {FALSE}

Returned(warned) == [raised |-> "", message |-> <<>>, warned |-> warned]

Raised(type, message) == [raised |-> type, message |-> message, warned |-> FALSE]

\* Lines 61-66 (data["Date"] is not empty here).
ValidateDate(data, warned) ==
    IF Strptime(data["Date"], fmt_dsmsY).ok
    THEN Returned(warned)
    ELSE Raised("ValidationError", <<"Invalid date format", data["Date"]>>)

\* The totals check with a mismatch rejected instead of logged.
CheckTotals_reject(data, net, vat, total) ==
    {IF w THEN Raised("ValidationError", <<"Amount mismatch">>) ELSE ValidateDate(data, w) :
     w \in AmountMismatch(net, vat, total)}

\* Lines 55-66: the mismatch is logged, and the date check follows.
CheckTotals(data, net, vat, total) ==
    {ValidateDate(data, w) : w \in AmountMismatch(net, vat, total)}

InvalidAmount(value) == Raised("ValidationError", <<"Invalid amount format", value>>)

\* validate_data(data): what the call can do: return (raised = "", with
\* whether the mismatch warning was logged) or raise.  The warning is the
\* one place with more than one outcome.
validate_data(data) ==
    IF missing_fields(data) # <<>>                                   \* lines 46-47
    THEN {Raised("ValidationError", <<"Missing required fields", missing_fields(data)>>)}
    ELSE LET net == ParseFloat(data["Net"])                          \* line 51
             vat == IF data["VAT"] # <<>> THEN ParseFloat(data["VAT"])   \* line 52
                    ELSE [ok |-> TRUE, neg |-> FALSE, whole |-> 0, frac |-> <<>>]
             total == ParseFloat(data["Total"])                      \* line 53
         IN  IF ~net.ok THEN {InvalidAmount(data["Net"])}
             ELSE IF "VAT" \notin DOMAIN data THEN {Raised("KeyError", <<"VAT">>)}
             ELSE IF ~vat.ok THEN {InvalidAmount(data["VAT"])}
             ELSE IF ~total.ok THEN {InvalidAmount(data["Total"])}
             ELSE CheckTotals(data, Cents(net), Cents(vat), Cents(total))

-----------------------------------------------------------------------------
(* The pattern lists of parse_pdf_content, in the notation of ReMatch.     *)
(* Every search is made with re.IGNORECASE, so literals are in lower case. *)

cbm_specific_patterns == <<
    \* line 154: r'Invoice\s+CBM\s+(\d{8})'
    Lit(<<"i", "n", "v", "o", "i", "c", "e">>) \o <<S1>> \o Lit(<<"c", "b", "m">>)
    \o <<S1, Open("1"), D(8, 8), Close("1")>>,
    \* line 155: r'Invoice\s*CBM\s*(\d{8})'
    Lit(<<"i", "n", "v", "o", "i", "c", "e">>) \o <<S0>> \o Lit(<<"c", "b", "m">>)
    \o <<S0, Open("1"), D(8, 8), Close("1")>>,
    \* line 156: r'Invoice\s+CBM\s+(\d{7})'
    Lit(<<"i", "n", "v", "o", "i", "c", "e">>) \o <<S1>> \o Lit(<<"c", "b", "m">>)
    \o <<S1, Open("1"), D(7, 7), Close("1")>>,
    \* line 157: r'Invoice\s*CBM\s*(\d{7})'
    Lit(<<"i", "n", "v", "o", "i", "c", "e">>) \o <<S0>> \o Lit(<<"c", "b", "m">>)
    \o <<S0, Open("1"), D(7, 7), Close("1")>>,
    \* line 158: r'Invoice\s+CBM\s+(\d+)'
    Lit(<<"i", "n", "v", "o", "i", "c", "e">>) \o <<S1>> \o Lit(<<"c", "b", "m">>)
    \o <<S1, Open("1"), D(1, Inf), Close("1")>>,
    \* line 159: r'Invoice\s*CBM\s*(\d+)'
    Lit(<<"i", "n", "v", "o", "i", "c", "e">>) \o <<S0>> \o Lit(<<"c", "b", "m">>)
    \o <<S0, Open("1"), D(1, Inf), Close("1")>>
>>

fallback_patterns == <<
    \* line 173: r'Our\s*Reference[.:\s]*(\d{5})/?'
    Lit(<<"o", "u", "r">>) \o <<S0>> \o Lit(<<"r", "e", "f", "e", "r", "e", "n", "c", "e">>)
    \o <<Cls(Whitespace \cup {".", ":"}, 0, Inf), Open("1"), D(5, 5), Close("1"), Cls({"/"}, 0, 1)>>,
    \* line 174: r'Our\s*Reference[.:\s]*(\d{5})\s*/'
    Lit(<<"o", "u", "r">>) \o <<S0>> \o Lit(<<"r", "e", "f", "e", "r", "e", "n", "c", "e">>)
    \o <<Cls(Whitespace \cup {".", ":"}, 0, Inf), Open("1"), D(5, 5), Close("1"), S0>>
    \o Lit(<<"/">>),
    \* line 175: r'Reference[.:\s]*(\d{5})/?'
    Lit(<<"r", "e", "f", "e", "r", "e", "n", "c", "e">>)
    \o <<Cls(Whitespace \cup {".", ":"}, 0, Inf), Open("1"), D(5, 5), Close("1"), Cls({"/"}, 0, 1)>>,
    \* line 176: r'Our\s*Reference[.:\s]*(\d{7,8})/?'
    Lit(<<"o", "u", "r">>) \o <<S0>> \o Lit(<<"r", "e", "f", "e", "r", "e", "n", "c", "e">>)
    \o <<Cls(Whitespace \cup {".", ":"}, 0, Inf), Open("1"), D(7, 8), Close("1"), Cls({"/"}, 0, 1)>>,
    \* line 177: r'Reference[.:\s]*(\d{7,8})/?'
    Lit(<<"r", "e", "f", "e", "r", "e", "n", "c", "e">>)
    \o <<Cls(Whitespace \cup {".", ":"}, 0, Inf), Open("1"), D(7, 8), Close("1"), Cls({"/"}, 0, 1)>>,
    \* line 178: r'Order\s*No[.:\s]*(\d{5,8})'
    Lit(<<"o", "r", "d", "e", "r">>) \o <<S0>> \o Lit(<<"n", "o">>)
    \o <<Cls(Whitespace \cup {".", ":"}, 0, Inf), Open("1"), D(5, 8), Close("1")>>
>>

fd_patterns == <<
    \* line 192: r'Invoice\s*FD\s*(\d+)'
    Lit(<<"i", "n", "v", "o", "i", "c", "e">>) \o <<S0>> \o Lit(<<"f", "d">>)
    \o <<S0, Open("1"), D(1, Inf), Close("1")>>,
    \* line 193: r'Invoice\s*(?:No|Number|#)[.:]\s*FD\s*(\d+)'
    Lit(<<"i", "n", "v", "o", "i", "c", "e">>)
    \o <<S0, Alt(<<Lit(<<"n", "o">>), Lit(<<"n", "u", "m", "b", "e", "r">>), Lit(<<"#">>)>>), Cls({".", ":"}, 1, 1), S0>>
    \o Lit(<<"f", "d">>) \o <<S0, Open("1"), D(1, Inf), Close("1")>>,
    \* line 194: r'Invoice\s*(?:No|Number|#)[.:]\s*(\d+)'
    Lit(<<"i", "n", "v", "o", "i", "c", "e">>)
    \o <<S0, Alt(<<Lit(<<"n", "o">>), Lit(<<"n", "u", "m", "b", "e", "r">>), Lit(<<"#">>)>>), Cls({".", ":"}, 1, 1), S0, Open("1"), D(1, Inf), Close("1")>>,
    \* line 195: r'Invoice[.:]\s*(\d+)'
    Lit(<<"i", "n", "v", "o", "i", "c", "e">>)
    \o <<Cls({".", ":"}, 1, 1), S0, Open("1"), D(1, Inf), Close("1")>>,
    \* line 196: r'Reference[.:]\s*(\d+)'
    Lit(<<"r", "e", "f", "e", "r", "e", "n", "c", "e">>)
    \o <<Cls({".", ":"}, 1, 1), S0, Open("1"), D(1, Inf), Close("1")>>,
    \* line 197: r'Our\s*Reference[.:\s]*(\d+)/?'
    Lit(<<"o", "u", "r">>) \o <<S0>> \o Lit(<<"r", "e", "f", "e", "r", "e", "n", "c", "e">>)
    \o <<Cls(Whitespace \cup {".", ":"}, 0, Inf), Open("1"), D(1, Inf), Close("1"), Cls({"/"}, 0, 1)>>
>>

date_patterns == <<
    \* line 211: r'Date[.:]\s*(\d{1,2}[-/]\d{1,2}[-/]\d{2,4})'  ['%d/%m/%Y', '%d-%m-%Y', '%d/%m/%y', '%d-%m-%y']
    [re |-> Lit(<<"d", "a", "t", "e">>)
           \o <<Cls({".", ":"}, 1, 1), S0, Open("1"), D(1, 2), Cls({"-", "/"}, 1, 1), D(1, 2), Cls({"-", "/"}, 1, 1), D(2, 4), Close("1")>>,
     formats |-> <<fmt_dsmsY, fmt_dhmhY, fmt_dsmsy, fmt_dhmhy>>],
    \* line 212: r'Date[.:]\s*(\d{1,2}-[A-Za-z]+-\d{4}\s+\d{2}:\d{2}:\d{2}(?:AM|PM)?)'  ['%d-%b-%Y %H:%M:%S', '%d-%b-%Y %I:%M:%S%p']
    [re |-> Lit(<<"d", "a", "t", "e">>) \o <<Cls({".", ":"}, 1, 1), S0, Open("1"), D(1, 2)>>
           \o Lit(<<"-">>) \o <<Cls(Letters, 1, Inf)>> \o Lit(<<"-">>) \o <<D(4, 4), S1, D(2, 2)>>
           \o Lit(<<":">>) \o <<D(2, 2)>> \o Lit(<<":">>)
           \o <<D(2, 2), Opt(<<Alt(<<Lit(<<"a", "m">>), Lit(<<"p", "m">>)>>)>>), Close("1")>>,
     formats |-> <<fmt_dhbhY_HcMcS, fmt_dhbhY_IcMcSp>>],
    \* line 213: r'Date[.:]\s*(\d{1,2}-[A-Za-z]+-\d{4})'  ['%d-%b-%Y']
    [re |-> Lit(<<"d", "a", "t", "e">>) \o <<Cls({".", ":"}, 1, 1), S0, Open("1"), D(1, 2)>>
           \o Lit(<<"-">>) \o <<Cls(Letters, 1, Inf)>> \o Lit(<<"-">>) \o <<D(4, 4), Close("1")>>,
     formats |-> <<fmt_dhbhY>>],
    \* line 214: r'Date[.:\s]*(\d{1,2}-[A-Za-z]+-\d{4}\s+\d{2}:\d{2}:\d{2})'  ['%d-%b-%Y %H:%M:%S']
    [re |-> Lit(<<"d", "a", "t", "e">>)
           \o <<Cls(Whitespace \cup {".", ":"}, 0, Inf), Open("1"), D(1, 2)>> \o Lit(<<"-">>)
           \o <<Cls(Letters, 1, Inf)>> \o Lit(<<"-">>) \o <<D(4, 4), S1, D(2, 2)>> \o Lit(<<":">>)
           \o <<D(2, 2)>> \o Lit(<<":">>) \o <<D(2, 2), Close("1")>>,
     formats |-> <<fmt_dhbhY_HcMcS>>],
    \* line 215: r'Date[.:\s]*(\d{1,2}-[A-Za-z]+-\d{4}\s+\d{2}\.\d{2}.\d{2}(?:AM|PM)?)'  ['%d-%b-%Y %H.%M.%S', '%d-%b-%Y %I.%M.%S%p']
    [re |-> Lit(<<"d", "a", "t", "e">>)
           \o <<Cls(Whitespace \cup {".", ":"}, 0, Inf), Open("1"), D(1, 2)>> \o Lit(<<"-">>)
           \o <<Cls(Letters, 1, Inf)>> \o Lit(<<"-">>) \o <<D(4, 4), S1, D(2, 2)>> \o Lit(<<".">>)
           \o <<D(2, 2), NotCls({"\n"}, 1, 1), D(2, 2), Opt(<<Alt(<<Lit(<<"a", "m">>), Lit(<<"p", "m">>)>>)>>), Close("1")>>,
     formats |-> <<fmt_dhbhY_HpMpS, fmt_dhbhY_IpMpSp>>],
    \* line 216: r'Date[.:\s]+(\d{1,2}-[A-Za-z]+-\d{4}\s+\d{2}:\d{2}:\d{2})'  ['%d-%b-%Y %H:%M:%S']
    [re |-> Lit(<<"d", "a", "t", "e">>)
           \o <<Cls(Whitespace \cup {".", ":"}, 1, Inf), Open("1"), D(1, 2)>> \o Lit(<<"-">>)
           \o <<Cls(Letters, 1, Inf)>> \o Lit(<<"-">>) \o <<D(4, 4), S1, D(2, 2)>> \o Lit(<<":">>)
           \o <<D(2, 2)>> \o Lit(<<":">>) \o <<D(2, 2), Close("1")>>,
     formats |-> <<fmt_dhbhY_HcMcS>>],
    \* line 218: r'MT\s+\d+\s+(\d{1,2}-[A-Za-z]+-\d{4}\s+\d{2}:\d{2}:\d{2})'  ['%d-%b-%Y %H:%M:%S']
    [re |-> Lit(<<"m", "t">>) \o <<S1, D(1, Inf), S1, Open("1"), D(1, 2)>> \o Lit(<<"-">>)
           \o <<Cls(Letters, 1, Inf)>> \o Lit(<<"-">>) \o <<D(4, 4), S1, D(2, 2)>> \o Lit(<<":">>)
           \o <<D(2, 2)>> \o Lit(<<":">>) \o <<D(2, 2), Close("1")>>,
     formats |-> <<fmt_dhbhY_HcMcS>>],
    \* line 219: r'(?:Sales Rep|Our Reference|Order No|Delivery By).*?(\d{1,2}-[A-Za-z]+-\d{4}\s+\d{2}:\d{2}:\d{2})'  ['%d-%b-%Y %H:%M:%S']
    [re |-> <<Alt(<<Lit(<<"s", "a", "l", "e", "s", " ", "r", "e", "p">>), Lit(<<"o", "u", "r", " ", "r", "e", "f", "e", "r", "e", "n", "c", "e">>), Lit(<<"o", "r", "d", "e", "r", " ", "n", "o">>), Lit(<<"d", "e", "l", "i", "v", "e", "r", "y", " ", "b", "y">>)>>), NotClsLazy({"\n"}, 0, Inf), Open("1"), D(1, 2)>>
           \o Lit(<<"-">>) \o <<Cls(Letters, 1, Inf)>> \o Lit(<<"-">>) \o <<D(4, 4), S1, D(2, 2)>>
           \o Lit(<<":">>) \o <<D(2, 2)>> \o Lit(<<":">>) \o <<D(2, 2), Close("1")>>,
     formats |-> <<fmt_dhbhY_HcMcS>>],
    \* line 221: r'Date:\s*Sales Rep:.*?(\d{1,2}-[A-Za-z]{3}-\d{4}\s+\d{2}:\d{2}:\d{2})'  ['%d-%b-%Y %H:%M:%S']
    [re |-> Lit(<<"d", "a", "t", "e", ":">>) \o <<S0>>
           \o Lit(<<"s", "a", "l", "e", "s", " ", "r", "e", "p", ":">>)
           \o <<NotClsLazy({"\n"}, 0, Inf), Open("1"), D(1, 2)>> \o Lit(<<"-">>)
           \o <<Cls(Letters, 3, 3)>> \o Lit(<<"-">>) \o <<D(4, 4), S1, D(2, 2)>> \o Lit(<<":">>)
           \o <<D(2, 2)>> \o Lit(<<":">>) \o <<D(2, 2), Close("1")>>,
     formats |-> <<fmt_dhbhY_HcMcS>>],
    \* line 222: r'Date:\s*(\d{1,2}-[A-Za-z]{3}-\d{4}\s+\d{2}:\d{2}:\d{2})'  ['%d-%b-%Y %H:%M:%S']
    [re |-> Lit(<<"d", "a", "t", "e", ":">>) \o <<S0, Open("1"), D(1, 2)>> \o Lit(<<"-">>)
           \o <<Cls(Letters, 3, 3)>> \o Lit(<<"-">>) \o <<D(4, 4), S1, D(2, 2)>> \o Lit(<<":">>)
           \o <<D(2, 2)>> \o Lit(<<":">>) \o <<D(2, 2), Close("1")>>,
     formats |-> <<fmt_dhbhY_HcMcS>>],
    \* line 224: r'(\d{1,2}-[A-Za-z]{3}-\d{4}\s+\d{2}:\d{2}:\d{2})'  ['%d-%b-%Y %H:%M:%S']
    [re |-> <<Open("1"), D(1, 2)>> \o Lit(<<"-">>) \o <<Cls(Letters, 3, 3)>> \o Lit(<<"-">>)
           \o <<D(4, 4), S1, D(2, 2)>> \o Lit(<<":">>) \o <<D(2, 2)>> \o Lit(<<":">>)
           \o <<D(2, 2), Close("1")>>,
     formats |-> <<fmt_dhbhY_HcMcS>>],
    \* line 226: r'MT\s+\d+\s+(\d{1,2}-[A-Za-z]{3}-\d{4}\s+\d{2}:\d{2}:\d{2})'  ['%d-%b-%Y %H:%M:%S']
    [re |-> Lit(<<"m", "t">>) \o <<S1, D(1, Inf), S1, Open("1"), D(1, 2)>> \o Lit(<<"-">>)
           \o <<Cls(Letters, 3, 3)>> \o Lit(<<"-">>) \o <<D(4, 4), S1, D(2, 2)>> \o Lit(<<":">>)
           \o <<D(2, 2)>> \o Lit(<<":">>) \o <<D(2, 2), Close("1")>>,
     formats |-> <<fmt_dhbhY_HcMcS>>],
    \* line 228: r'(\d{1,2}-[A-Za-z]{3}-\d{4}\s+\d{2}\.\d{2}\d{2}(?:AM|PM))'  ['%d-%b-%Y %H.%M%S%p']
    [re |-> <<Open("1"), D(1, 2)>> \o Lit(<<"-">>) \o <<Cls(Letters, 3, 3)>> \o Lit(<<"-">>)
           \o <<D(4, 4), S1, D(2, 2)>> \o Lit(<<".">>)
           \o <<D(2, 2), D(2, 2), Alt(<<Lit(<<"a", "m">>), Lit(<<"p", "m">>)>>), Close("1")>>,
     formats |-> <<fmt_dhbhY_HpMSp>>],
    \* line 229: r'(\d{1,2}-[A-Za-z]{3}-\d{4}\s+\d{2}\s+\d{2}\s+\d{2}(?:AM|PM)?)'  ['%d-%b-%Y %H %M %S', '%d-%b-%Y %H %M %S%p']
    [re |-> <<Open("1"), D(1, 2)>> \o Lit(<<"-">>) \o <<Cls(Letters, 3, 3)>> \o Lit(<<"-">>)
           \o <<D(4, 4), S1, D(2, 2), S1, D(2, 2), S1, D(2, 2), Opt(<<Alt(<<Lit(<<"a", "m">>), Lit(<<"p", "m">>)>>)>>), Close("1")>>,
     formats |-> <<fmt_dhbhY_H_M_S, fmt_dhbhY_H_M_Sp>>],
    \* line 230: r'Date Due:\s*(\d{1,2}/\d{1,2}/\d{4})'  ['%d/%m/%Y']
    [re |-> Lit(<<"d", "a", "t", "e", " ", "d", "u", "e", ":">>) \o <<S0, Open("1"), D(1, 2)>>
           \o Lit(<<"/">>) \o <<D(1, 2)>> \o Lit(<<"/">>) \o <<D(4, 4), Close("1")>>,
     formats |-> <<fmt_dsmsY>>],
    \* line 231: r'(\d{1,2}(?:st|nd|rd|th)?\s+(?:Jan|Feb|Mar|Apr|May|Jun|Jul|Aug|Sep|Oct|Nov|Dec)[a-z]*\.?\s+\d{2,4})'  ['%d %B %Y', '%d %b %Y']
    [re |-> <<Open("1"), D(1, 2), Opt(<<Alt(<<Lit(<<"s", "t">>), Lit(<<"n", "d">>), Lit(<<"r", "d">>), Lit(<<"t", "h">>)>>)>>), S1, Alt(<<Lit(<<"j", "a", "n">>), Lit(<<"f", "e", "b">>), Lit(<<"m", "a", "r">>), Lit(<<"a", "p", "r">>), Lit(<<"m", "a", "y">>), Lit(<<"j", "u", "n">>), Lit(<<"j", "u", "l">>), Lit(<<"a", "u", "g">>), Lit(<<"s", "e", "p">>), Lit(<<"o", "c", "t">>), Lit(<<"n", "o", "v">>), Lit(<<"d", "e", "c">>)>>), Cls(Letters, 0, Inf), Cls({"."}, 0, 1), S1, D(2, 4), Close("1")>>,
     formats |-> <<fmt_d_B_Y, fmt_d_b_Y>>],
    \* line 232: r'(\d{4}[-/]\d{1,2}[-/]\d{1,2})'  ['%Y-%m-%d', '%Y/%m/%d']
    [re |-> <<Open("1"), D(4, 4), Cls({"-", "/"}, 1, 1), D(1, 2), Cls({"-", "/"}, 1, 1), D(1, 2), Close("1")>>,
     formats |-> <<fmt_Yhmhd, fmt_Ysmsd>>]
>>

net_patterns == <<
    \* line 259: r'Net\s*Amount\s*(?:in\s*EUR\s* )?(\d+\.[\d]+)'
    Lit(<<"n", "e", "t">>) \o <<S0>> \o Lit(<<"a", "m", "o", "u", "n", "t">>)
    \o <<S0, Opt(Lit(<<"i", "n">>) \o <<S0>> \o Lit(<<"e", "u", "r">>)
    \o <<S0>>), Open("1"), D(1, Inf)>> \o Lit(<<".">>) \o <<D(1, Inf), Close("1")>>,
    \* line 260: r'(?:Net|Subtotal|Sub-total)[:\s]*[£$€]?\s*(\(?[\d,]+\.?[\d]*\)?)'
    <<Alt(<<Lit(<<"n", "e", "t">>), Lit(<<"s", "u", "b", "t", "o", "t", "a", "l">>), Lit(<<"s", "u", "b", "-", "t", "o", "t", "a", "l">>)>>), Cls(Whitespace \cup {":"}, 0, Inf), Cls({"$", POUND, EURO}, 0, 1), S0, Open("1"), Cls({"("}, 0, 1), Cls(Digits \cup {","}, 1, Inf), Cls({"."}, 0, 1), D(0, Inf), Cls({")"}, 0, 1), Close("1")>>,
    \* line 261: r'Amount[:\s]*[£$€]?\s*(\(?[\d,]+\.?[\d]*\)?)'
    Lit(<<"a", "m", "o", "u", "n", "t">>)
    \o <<Cls(Whitespace \cup {":"}, 0, Inf), Cls({"$", POUND, EURO}, 0, 1), S0, Open("1"), Cls({"("}, 0, 1), Cls(Digits \cup {","}, 1, Inf), Cls({"."}, 0, 1), D(0, Inf), Cls({")"}, 0, 1), Close("1")>>,
    \* line 262: r'NetAmount\s*(\d+\.[\d]+)'
    Lit(<<"n", "e", "t", "a", "m", "o", "u", "n", "t">>) \o <<S0, Open("1"), D(1, Inf)>>
    \o Lit(<<".">>) \o <<D(1, Inf), Close("1")>>,
    \* line 263: r'Net\s*Amount\s*(?:VAT\s*Amt)?[:\s]*(\d+\.[\d]+)'
    Lit(<<"n", "e", "t">>) \o <<S0>> \o Lit(<<"a", "m", "o", "u", "n", "t">>)
    \o <<S0, Opt(Lit(<<"v", "a", "t">>) \o <<S0>>
    \o Lit(<<"a", "m", "t">>)), Cls(Whitespace \cup {":"}, 0, Inf), Open("1"), D(1, Inf)>>
    \o Lit(<<".">>) \o <<D(1, Inf), Close("1")>>,
    \* line 264: r'Net\s*Amount\s+(\d+\.[\d]+)'
    Lit(<<"n", "e", "t">>) \o <<S0>> \o Lit(<<"a", "m", "o", "u", "n", "t">>)
    \o <<S1, Open("1"), D(1, Inf)>> \o Lit(<<".">>) \o <<D(1, Inf), Close("1")>>,
    \* line 265: r'NetAmount\s+(\d+\.[\d]+)'
    Lit(<<"n", "e", "t", "a", "m", "o", "u", "n", "t">>) \o <<S1, Open("1"), D(1, Inf)>>
    \o Lit(<<".">>) \o <<D(1, Inf), Close("1")>>,
    \* line 266: r'NetAmount\s+(\d+)(?!\.\d)'
    Lit(<<"n", "e", "t", "a", "m", "o", "u", "n", "t">>)
    \o <<S1, Open("1"), D(1, Inf), Close("1"), NotAhead(Lit(<<".">>) \o <<D(1, 1)>>)>>,
    \* line 267: r'Net\s*Amount\s+(\d+)(?!\.\d)'
    Lit(<<"n", "e", "t">>) \o <<S0>> \o Lit(<<"a", "m", "o", "u", "n", "t">>)
    \o <<S1, Open("1"), D(1, Inf), Close("1"), NotAhead(Lit(<<".">>) \o <<D(1, 1)>>)>>,
    \* line 269: r'NetAmount\s+(?:E\s*-\s*0%\s* )?(\d+)(?!\.\d)'
    Lit(<<"n", "e", "t", "a", "m", "o", "u", "n", "t">>) \o <<S1, Opt(Lit(<<"e">>) \o <<S0>>
    \o Lit(<<"-">>) \o <<S0>> \o Lit(<<"0", "%">>)
    \o <<S0>>), Open("1"), D(1, Inf), Close("1"), NotAhead(Lit(<<".">>) \o <<D(1, 1)>>)>>,
    \* line 270: r'Net\s*Amount\s+(?:E\s*-\s*0%\s* )?(\d+\.[\d]+)'
    Lit(<<"n", "e", "t">>) \o <<S0>> \o Lit(<<"a", "m", "o", "u", "n", "t">>)
    \o <<S1, Opt(Lit(<<"e">>) \o <<S0>> \o Lit(<<"-">>) \o <<S0>> \o Lit(<<"0", "%">>)
    \o <<S0>>), Open("1"), D(1, Inf)>> \o Lit(<<".">>) \o <<D(1, Inf), Close("1")>>,
    \* line 272: r'Net\s*Amount\s*Retail\s*TC.*?(\d+\.?\d* )'
    Lit(<<"n", "e", "t">>) \o <<S0>> \o Lit(<<"a", "m", "o", "u", "n", "t">>) \o <<S0>>
    \o Lit(<<"r", "e", "t", "a", "i", "l">>) \o <<S0>> \o Lit(<<"t", "c">>)
    \o <<NotClsLazy({"\n"}, 0, Inf), Open("1"), D(1, Inf), Cls({"."}, 0, 1), D(0, Inf), Close("1")>>,
    \* line 273: r'Type[.\s]*Supply\s*by\s*Sale[^0-9]*?(\d+\.?\d* )'
    Lit(<<"t", "y", "p", "e">>) \o <<Cls(Whitespace \cup {"."}, 0, Inf)>>
    \o Lit(<<"s", "u", "p", "p", "l", "y">>) \o <<S0>> \o Lit(<<"b", "y">>) \o <<S0>>
    \o Lit(<<"s", "a", "l", "e">>)
    \o <<NotClsLazy(Digits, 0, Inf), Open("1"), D(1, Inf), Cls({"."}, 0, 1), D(0, Inf), Close("1")>>,
    \* line 275: r'Supply\s*by\s*Sale\s*Net\s*Amount.*?(\d+\.?\d* )'
    Lit(<<"s", "u", "p", "p", "l", "y">>) \o <<S0>> \o Lit(<<"b", "y">>) \o <<S0>>
    \o Lit(<<"s", "a", "l", "e">>) \o <<S0>> \o Lit(<<"n", "e", "t">>) \o <<S0>>
    \o Lit(<<"a", "m", "o", "u", "n", "t">>)
    \o <<NotClsLazy({"\n"}, 0, Inf), Open("1"), D(1, Inf), Cls({"."}, 0, 1), D(0, Inf), Close("1")>>,
    \* line 276: r'Net\s*Amount.*?(\d{2,4}\.?\d* )'
    Lit(<<"n", "e", "t">>) \o <<S0>> \o Lit(<<"a", "m", "o", "u", "n", "t">>)
    \o <<NotClsLazy({"\n"}, 0, Inf), Open("1"), D(2, 4), Cls({"."}, 0, 1), D(0, Inf), Close("1")>>,
    \* line 278: r'E\s*-\s*0%\s*(\d+)(?!\.\d)'
    Lit(<<"e">>) \o <<S0>> \o Lit(<<"-">>) \o <<S0>> \o Lit(<<"0", "%">>)
    \o <<S0, Open("1"), D(1, Inf), Close("1"), NotAhead(Lit(<<".">>) \o <<D(1, 1)>>)>>,
    \* line 279: r'0%\s*(\d+)(?!\.\d)'
    Lit(<<"0", "%">>) \o <<S0, Open("1"), D(1, Inf), Close("1"), NotAhead(Lit(<<".">>)
    \o <<D(1, 1)>>)>>
>>

vat_patterns == <<
    \* line 282: r'VAT\s*Amt\s*(\d+\.[\d]+)'
    Lit(<<"v", "a", "t">>) \o <<S0>> \o Lit(<<"a", "m", "t">>) \o <<S0, Open("1"), D(1, Inf)>>
    \o Lit(<<".">>) \o <<D(1, Inf), Close("1")>>,
    \* line 283: r'VAT\s*Amount\s*(\d+\.[\d]+)'
    Lit(<<"v", "a", "t">>) \o <<S0>> \o Lit(<<"a", "m", "o", "u", "n", "t">>)
    \o <<S0, Open("1"), D(1, Inf)>> \o Lit(<<".">>) \o <<D(1, Inf), Close("1")>>,
    \* line 284: r'(?:VAT|Tax)[:\s]*[£$€]?\s*(\(?[\d,]+\.?[\d]*\)?)'
    <<Alt(<<Lit(<<"v", "a", "t">>), Lit(<<"t", "a", "x">>)>>), Cls(Whitespace \cup {":"}, 0, Inf), Cls({"$", POUND, EURO}, 0, 1), S0, Open("1"), Cls({"("}, 0, 1), Cls(Digits \cup {","}, 1, Inf), Cls({"."}, 0, 1), D(0, Inf), Cls({")"}, 0, 1), Close("1")>>,
    \* line 285: r'V\.A\.T\.[:\s]*[£$€]?\s*(\(?[\d,]+\.?[\d]*\)?)'
    Lit(<<"v", ".", "a", ".", "t", ".">>)
    \o <<Cls(Whitespace \cup {":"}, 0, Inf), Cls({"$", POUND, EURO}, 0, 1), S0, Open("1"), Cls({"("}, 0, 1), Cls(Digits \cup {","}, 1, Inf), Cls({"."}, 0, 1), D(0, Inf), Cls({")"}, 0, 1), Close("1")>>,
    \* line 286: r'VATAmount\s*(\d+\.[\d]+)'
    Lit(<<"v", "a", "t", "a", "m", "o", "u", "n", "t">>) \o <<S0, Open("1"), D(1, Inf)>>
    \o Lit(<<".">>) \o <<D(1, Inf), Close("1")>>,
    \* line 287: r'VAT\s*Amount\s+(\d+\.[\d]+)'
    Lit(<<"v", "a", "t">>) \o <<S0>> \o Lit(<<"a", "m", "o", "u", "n", "t">>)
    \o <<S1, Open("1"), D(1, Inf)>> \o Lit(<<".">>) \o <<D(1, Inf), Close("1")>>,
    \* line 288: r'VATAmount\s+(\d+\.[\d]+)'
    Lit(<<"v", "a", "t", "a", "m", "o", "u", "n", "t">>) \o <<S1, Open("1"), D(1, Inf)>>
    \o Lit(<<".">>) \o <<D(1, Inf), Close("1")>>,
    \* line 289: r'VAT\s*Amt\s+(\d+\.[\d]+)'
    Lit(<<"v", "a", "t">>) \o <<S0>> \o Lit(<<"a", "m", "t">>) \o <<S1, Open("1"), D(1, Inf)>>
    \o Lit(<<".">>) \o <<D(1, Inf), Close("1")>>,
    \* line 290: r'VAT\s*Amt\s+(\d+\.[\d]+)'
    Lit(<<"v", "a", "t">>) \o <<S0>> \o Lit(<<"a", "m", "t">>) \o <<S1, Open("1"), D(1, Inf)>>
    \o Lit(<<".">>) \o <<D(1, Inf), Close("1")>>
>>

total_patterns == <<
    \* line 293: r'Total\s*Amount\s*in\s*EUR\s*(\d+\.[\d]+)'
    Lit(<<"t", "o", "t", "a", "l">>) \o <<S0>> \o Lit(<<"a", "m", "o", "u", "n", "t">>) \o <<S0>>
    \o Lit(<<"i", "n">>) \o <<S0>> \o Lit(<<"e", "u", "r">>) \o <<S0, Open("1"), D(1, Inf)>>
    \o Lit(<<".">>) \o <<D(1, Inf), Close("1")>>,
    \* line 294: r'(?:Total|Amount Due|Balance Due)[:\s]*[£$€]?\s*(\(?[\d,]+\.?[\d]*\)?)'
    <<Alt(<<Lit(<<"t", "o", "t", "a", "l">>), Lit(<<"a", "m", "o", "u", "n", "t", " ", "d", "u", "e">>), Lit(<<"b", "a", "l", "a", "n", "c", "e", " ", "d", "u", "e">>)>>), Cls(Whitespace \cup {":"}, 0, Inf), Cls({"$", POUND, EURO}, 0, 1), S0, Open("1"), Cls({"("}, 0, 1), Cls(Digits \cup {","}, 1, Inf), Cls({"."}, 0, 1), D(0, Inf), Cls({")"}, 0, 1), Close("1")>>,
    \* line 295: r'Total\s+Amount[:\s]*[£$€]?\s*(\(?[\d,]+\.?[\d]*\)?)'
    Lit(<<"t", "o", "t", "a", "l">>) \o <<S1>> \o Lit(<<"a", "m", "o", "u", "n", "t">>)
    \o <<Cls(Whitespace \cup {":"}, 0, Inf), Cls({"$", POUND, EURO}, 0, 1), S0, Open("1"), Cls({"("}, 0, 1), Cls(Digits \cup {","}, 1, Inf), Cls({"."}, 0, 1), D(0, Inf), Cls({")"}, 0, 1), Close("1")>>,
    \* line 296: r'Total\s*Amount\s*(?:in\s*EUR\s* )?(\d+\.[\d]+)'
    Lit(<<"t", "o", "t", "a", "l">>) \o <<S0>> \o Lit(<<"a", "m", "o", "u", "n", "t">>)
    \o <<S0, Opt(Lit(<<"i", "n">>) \o <<S0>> \o Lit(<<"e", "u", "r">>)
    \o <<S0>>), Open("1"), D(1, Inf)>> \o Lit(<<".">>) \o <<D(1, Inf), Close("1")>>,
    \* line 297: r'Total\s*Amount\s+in\s+EUR\s+(\d+\.[\d]+)'
    Lit(<<"t", "o", "t", "a", "l">>) \o <<S0>> \o Lit(<<"a", "m", "o", "u", "n", "t">>) \o <<S1>>
    \o Lit(<<"i", "n">>) \o <<S1>> \o Lit(<<"e", "u", "r">>) \o <<S1, Open("1"), D(1, Inf)>>
    \o Lit(<<".">>) \o <<D(1, Inf), Close("1")>>,
    \* line 298: r'TotalAmount\s*(\d+\.[\d]+)'
    Lit(<<"t", "o", "t", "a", "l", "a", "m", "o", "u", "n", "t">>) \o <<S0, Open("1"), D(1, Inf)>>
    \o Lit(<<".">>) \o <<D(1, Inf), Close("1")>>,
    \* line 299: r'Total\s+Amount\s+in\s+EUR\s+(\d+\.[\d]+)'
    Lit(<<"t", "o", "t", "a", "l">>) \o <<S1>> \o Lit(<<"a", "m", "o", "u", "n", "t">>) \o <<S1>>
    \o Lit(<<"i", "n">>) \o <<S1>> \o Lit(<<"e", "u", "r">>) \o <<S1, Open("1"), D(1, Inf)>>
    \o Lit(<<".">>) \o <<D(1, Inf), Close("1")>>,
    \* line 300: r'Total\s*Amount\s*in\s*EUR\s*(\d+)(?!\.\d)'
    Lit(<<"t", "o", "t", "a", "l">>) \o <<S0>> \o Lit(<<"a", "m", "o", "u", "n", "t">>) \o <<S0>>
    \o Lit(<<"i", "n">>) \o <<S0>> \o Lit(<<"e", "u", "r">>)
    \o <<S0, Open("1"), D(1, Inf), Close("1"), NotAhead(Lit(<<".">>) \o <<D(1, 1)>>)>>,
    \* line 302: r'Total\s*Amount\s*in\s*EUR.*?by(\d+\.[\d]+)'
    Lit(<<"t", "o", "t", "a", "l">>) \o <<S0>> \o Lit(<<"a", "m", "o", "u", "n", "t">>) \o <<S0>>
    \o Lit(<<"i", "n">>) \o <<S0>> \o Lit(<<"e", "u", "r">>) \o <<NotClsLazy({"\n"}, 0, Inf)>>
    \o Lit(<<"b", "y">>) \o <<Open("1"), D(1, Inf)>> \o Lit(<<".">>) \o <<D(1, Inf), Close("1")>>,
    \* line 304: r'Total\s*(?:Amount\s* )?[:\s]*(\d+\.?\d* )'
    Lit(<<"t", "o", "t", "a", "l">>) \o <<S0, Opt(Lit(<<"a", "m", "o", "u", "n", "t">>)
    \o <<S0>>), Cls(Whitespace \cup {":"}, 0, Inf), Open("1"), D(1, Inf), Cls({"."}, 0, 1), D(0, Inf), Close("1")>>,
    \* line 305: r'Grand\s*Total[:\s]*(\d+\.?\d* )'
    Lit(<<"g", "r", "a", "n", "d">>) \o <<S0>> \o Lit(<<"t", "o", "t", "a", "l">>)
    \o <<Cls(Whitespace \cup {":"}, 0, Inf), Open("1"), D(1, Inf), Cls({"."}, 0, 1), D(0, Inf), Close("1")>>,
    \* line 306: r'Balance[:\s]*(\d+\.?\d* )'
    Lit(<<"b", "a", "l", "a", "n", "c", "e">>)
    \o <<Cls(Whitespace \cup {":"}, 0, Inf), Open("1"), D(1, Inf), Cls({"."}, 0, 1), D(0, Inf), Close("1")>>,
    \* line 308: r'VAT\s*Amount[^0-9]*?(\d+\.?\d* )'
    Lit(<<"v", "a", "t">>) \o <<S0>> \o Lit(<<"a", "m", "o", "u", "n", "t">>)
    \o <<NotClsLazy(Digits, 0, Inf), Open("1"), D(1, Inf), Cls({"."}, 0, 1), D(0, Inf), Close("1")>>,
    \* line 309: r'Total\s*Amount\s*in\s*EUR.*?(\d+\.[\d]+)'
    Lit(<<"t", "o", "t", "a", "l">>) \o <<S0>> \o Lit(<<"a", "m", "o", "u", "n", "t">>) \o <<S0>>
    \o Lit(<<"i", "n">>) \o <<S0>> \o Lit(<<"e", "u", "r">>)
    \o <<NotClsLazy({"\n"}, 0, Inf), Open("1"), D(1, Inf)>> \o Lit(<<".">>)
    \o <<D(1, Inf), Close("1")>>,
    \* line 311: r'Total\s*Amount\s*in\s*EUR\s+(\d+\.[\d]+)'
    Lit(<<"t", "o", "t", "a", "l">>) \o <<S0>> \o Lit(<<"a", "m", "o", "u", "n", "t">>) \o <<S0>>
    \o Lit(<<"i", "n">>) \o <<S0>> \o Lit(<<"e", "u", "r">>) \o <<S1, Open("1"), D(1, Inf)>>
    \o Lit(<<".">>) \o <<D(1, Inf), Close("1")>>,
    \* line 312: r'EUR\s+(\d+\.[\d]+)'
    Lit(<<"e", "u", "r">>) \o <<S1, Open("1"), D(1, Inf)>> \o Lit(<<".">>)
    \o <<D(1, Inf), Close("1")>>
>>

-----------------------------------------------------------------------------
(* load_config and parse_pdf_content                                       *)
(*                                                                         *)
(* config.json is absent, invalid (not JSON), or valid with a dictionary   *)
(* as its content: [state |-> ..., content |-> ...].                       *)
(* A dictionary is a function from its keys; the values of default_type,   *)
(* customer and nominal_ac, the supplier names and the directory names are *)
(* strings the program only copies, the invoice numbers and dates are      *)
(* sequences of characters.                                                *)

EmptyDict == <<>>

ConfigAbsent == [state |-> "absent", content |-> EmptyDict]
ConfigInvalid == [state |-> "invalid", content |-> EmptyDict]
ConfigWith(dict) == [state |-> "valid", content |-> dict]

DefaultConfig ==
    ("date_overrides" :> EmptyDict) @@ ("supplier" :> "Attard & Co Food Ltd")
    @@ ("customer" :> "IG International Ltd") @@ ("nominal_ac" :> "5000")
    @@ ("default_type" :> "PI")

\* load_config(): the dictionary, or the JSONDecodeError it re-raises.
load_config(file) ==
    CASE file.state = "absent" -> [raised |-> "", value |-> DefaultConfig]
      [] file.state = "invalid" -> [raised |-> "JSONDecodeError", value |-> EmptyDict]
      [] file.state = "valid" -> [raised |-> "", value |-> file.content]

\* dict.get(key, default)
Get(dict, key, default) == IF key \in DOMAIN dict THEN dict[key] ELSE default

\* Lines 131-148: the record parse_pdf_content starts from.  Description
\* and Customer Country are left out: they are filled from the text by
\* searches of their own and read by nothing else in the program.
NewRecord(config, company_dir) ==
    ("Type" :> Get(config, "default_type", "PI"))
    @@ ("Supplier" :> IF company_dir # ""
                      THEN Get(Get(config, "suppliers", EmptyDict), company_dir, company_dir)
                      ELSE "")
    @@ ("Customer" :> Get(config, "customer", ""))
    @@ ("Nominal A/C" :> Get(config, "nominal_ac", "5000"))
    @@ ("Date" :> <<>>) @@ ("Invoice Number" :> <<>>) @@ ("Net" :> <<>>)
    @@ ("Tax Code" :> "") @@ ("VAT" :> <<>>) @@ ("Total" :> <<>>)

NoCapture == [ok |-> FALSE, index |-> 0, value |-> <<>>]

\* The loop without its break: the last pattern that matches decides.
LastMatch(patterns, text) ==
    LET hits == {i \in 1..Len(patterns) : ReSearch(patterns[i], text).ok}
    IN  IF hits = {} THEN NoCapture
        ELSE [ok |-> TRUE, index |-> Max(hits),
              value |-> Group(text, ReSearch(patterns[Max(hits)], text), "1")]

\* for pattern in patterns: m = re.search(...); if m: ... break
\* The first of the patterns that matches, and its group 1.
FirstMatch(patterns, text) ==
    LET hits == {i \in 1..Len(patterns) : ReSearch(patterns[i], text).ok}
    IN  IF hits = {} THEN NoCapture
        ELSE [ok |-> TRUE, index |-> Min(hits),
              value |-> Group(text, ReSearch(patterns[Min(hits)], text), "1")]

CBM == <<"C", "B", "M">>
FD == <<"F", "D">>

\* Line 184: the numbers the fallback patterns must not return.
ExcludedNumbers ==
    {<<"2", "1", "4", "6", "6", "2", "9", "2">>, <<"7", "7", "8", "8", "6", "6", "6", "1">>}

\* Lines 161-167: the labelled "Invoice CBM" patterns.
CbmInvoiceNumber(text) ==
    LET f == FirstMatch(cbm_specific_patterns, text)
    IN  IF f.ok THEN CBM \o f.value ELSE <<>>

\* Lines 181-184: what a fallback pattern captures, when it is a number
\* the loop accepts.
FallbackNumber(pattern, text) ==
    LET m == ReSearch(pattern, text)
    IN  IF m.ok /\ Len(Group(text, m, "1")) >= 5 /\ Group(text, m, "1") \notin ExcludedNumbers
        THEN Group(text, m, "1")
        ELSE <<>>

\* Lines 179-187: a fallback pattern ends the loop only when its number is
\* accepted.
Fallback(text) ==
    LET hits == {i \in 1..Len(fallback_patterns) :
                    FallbackNumber(fallback_patterns[i], text) # <<>>}
    IN  IF hits = {} THEN <<>>
        ELSE CBM \o FallbackNumber(fallback_patterns[Min(hits)], text)

StartsWith(s, prefix) == Len(s) >= Len(prefix) /\ SubSeq(s, 1, Len(prefix)) = prefix

\* Lines 199-205
FdInvoiceNumber(text) ==
    LET f == FirstMatch(fd_patterns, text)
    IN  IF ~f.ok THEN <<>>
        ELSE IF StartsWith(f.value, FD) THEN f.value ELSE FD \o f.value

\* Lines 151-206
InvoiceNumber(text, company_dir) ==
    IF company_dir = "CamelBrand"
    THEN LET cbm == CbmInvoiceNumber(text)
         IN  IF cbm # <<>> THEN cbm ELSE Fallback(text)
    ELSE FdInvoiceNumber(text)

Ordinals == {<<"s", "t">>, <<"n", "d">>, <<"r", "d">>, <<"t", "h">>}

RECURSIVE StripOrdinals(_)
\* re.sub(r'(?:st|nd|rd|th)', '', date_str): case-sensitive, anywhere.
StripOrdinals(s) ==
    IF Len(s) < 2 THEN s
    ELSE IF SubSeq(s, 1, 2) \in Ordinals THEN StripOrdinals(SubSeq(s, 3, Len(s)))
    ELSE <<Head(s)>> \o StripOrdinals(Tail(s))

RECURSIVE TryFormats(_, _, _)
\* Lines 242-248: the first format datetime.strptime accepts.
TryFormats(date_str, formats, i) ==
    IF i > Len(formats) THEN NoDate
    ELSE LET date_obj == Strptime(date_str, formats[i])
         IN  IF date_obj.ok THEN date_obj ELSE TryFormats(date_str, formats, i + 1)

\* Lines 237-248: the date a pattern finds, when one of its formats parses
\* what it captured.
DateOf(pattern, text) ==
    LET m == ReSearch(pattern.re, text)
    IN  IF m.ok THEN TryFormats(StripOrdinals(Group(text, m, "1")), pattern.formats, 1)
        ELSE NoDate

\* The loop ended by the first pattern that matches, parsed or not.
FirstDate_first_match(text) ==
    LET hits == {i \in 1..Len(date_patterns) : ReSearch(date_patterns[i].re, text).ok}
    IN  IF hits = {} THEN NoDate ELSE DateOf(date_patterns[Min(hits)], text)

\* Lines 235-250: the date of the first pattern that matches and parses.
FirstDate(text) ==
    LET hits == {i \in 1..Len(date_patterns) : DateOf(date_patterns[i], text).ok}
    IN  IF hits = {} THEN NoDate ELSE DateOf(date_patterns[Min(hits)], text)

\* The values data["Date"] can have after the loop: strftime('%Y') pads a
\* year below 1000 on some C libraries and not on others.
ExtractDate(text) ==
    LET date_obj == FirstDate(text)
    IN  IF date_obj.ok THEN {Strftime(date_obj, pads) : pads \in BOOLEAN} ELSE {<<>>}

\* The override ignored when the text gave a date.
OverrideDate_if_empty(data, config) ==
    LET date_overrides == Get(config, "date_overrides", EmptyDict)
    IN  IF data["Invoice Number"] \in DOMAIN date_overrides /\ data["Date"] = <<>>
        THEN [data EXCEPT !["Date"] = date_overrides[data["Invoice Number"]]]
        ELSE data

\* Lines 253-254
OverrideDate(data, config) ==
    LET date_overrides == Get(config, "date_overrides", EmptyDict)
    IN  IF data["Invoice Number"] \in DOMAIN date_overrides
        THEN [data EXCEPT !["Date"] = date_overrides[data["Invoice Number"]]]
        ELSE data

\* Lines 317-326 for one field: the first pattern that matches decides, even
\* when parse_amount makes nothing of what it captured.
ExtractAmount(patterns, text) ==
    LET f == FirstMatch(patterns, text)
    IN  [found |-> f.ok, amount |-> IF f.ok THEN parse_amount(f.value) ELSE <<>>]

\* Lines 317-326: Net, VAT and Total in the order of the dictionary.
ExtractAmounts(data, text) ==
    LET net == ExtractAmount(net_patterns, text)
        vat == ExtractAmount(vat_patterns, text)
        total == ExtractAmount(total_patterns, text)
    IN  [data EXCEPT !["Net"] = IF net.found THEN net.amount ELSE @,
                     !["VAT"] = IF vat.found THEN vat.amount ELSE @,
                     !["Tax Code"] = IF ~vat.found THEN @
                                     ELSE IF vat.amount = <<"0", ".", "0", "0">> THEN "T0"
                                     ELSE "T1",
                     !["Total"] = IF total.found THEN total.amount ELSE @]

\* float(x) == 0.0
IsZero(v) == v.ok /\ v.whole = 0 /\ AllZeros(v.frac)

\* Total copied from Net whatever VAT is.
TotalFallback_any_vat(data) ==
    IF data["Total"] = <<>> /\ data["Net"] # <<>>
    THEN [data EXCEPT !["Total"] = data["Net"]]
    ELSE data

\* Lines 329-333
TotalFallback(data) ==
    IF data["Total"] = <<>> /\ data["Net"] # <<>>
       /\ (data["VAT"] = <<>> \/ IsZero(ParseFloat(data["VAT"])))
    THEN [data EXCEPT !["Total"] = data["Net"]]
    ELSE data

\* Line 330: float(data["VAT"]) raises ValueError.
TotalFallbackRaises(data) ==
    /\ data["Total"] = <<>> /\ data["Net"] # <<>>
    /\ data["VAT"] # <<>> /\ ~ParseFloat(data["VAT"]).ok

\* Line 336
SetCustomer(data) == [data EXCEPT !["Customer"] = "IG International Ltd"]

\* parse_pdf_content(text, company_dir) with config.json as given: the
\* exception it raises, or the record it returns.
parse_pdf_content(text, company_dir, file) ==
    LET loaded == load_config(file)
        config == loaded.value
        d1 == [NewRecord(config, company_dir)
                  EXCEPT !["Invoice Number"] = InvoiceNumber(text, company_dir)]
    IN  IF loaded.raised # "" THEN {[raised |-> loaded.raised, data |-> EmptyDict]}
        ELSE {LET d2 == OverrideDate([d1 EXCEPT !["Date"] = date], config)
                  d3 == ExtractAmounts(d2, text)
              IN  IF TotalFallbackRaises(d3) THEN [raised |-> "ValueError", data |-> EmptyDict]
                  ELSE [raised |-> "", data |-> SetCustomer(TotalFallback(d3))] :
              date \in ExtractDate(text)}

-----------------------------------------------------------------------------
(* The specifications of single functions leave the batch loop at rest.    *)

NoBatch ==
    /\ pdf_files = <<>> /\ idx = 0
    /\ loc_text = <<>> /\ loc_data = <<>> /\ exc = <<>>
    /\ success_count = 0 /\ error_count = 0
    /\ output = <<>>

-----------------------------------------------------------------------------
(* clean_text applied to raw text, and again to its own result            *)

MaxRawLen == 5

RawChars == {"a", " ", "\n", "\t", NBSP, EACUTE}

RawTexts == SeqsUpTo(RawChars, MaxRawLen)

InitClean ==
    /\ pc = "call"
    /\ fn_arg \in RawTexts
    /\ fn_ret = <<>>
    /\ config_file = ConfigAbsent
    /\ NoBatch

CleanRaw ==
    /\ pc = "call"
    /\ fn_ret = <<>>
    /\ fn_ret' = <<clean_text(fn_arg)>>
    /\ UNCHANGED <<pc, fn_arg>>
    /\ UNCHANGED <<config_file, batch_vars>>

CleanAgain ==
    /\ pc = "call"
    /\ Len(fn_ret) = 1
    /\ fn_ret' = Append(fn_ret, clean_text(fn_ret[1]))
    /\ pc' = "done"
    /\ UNCHANGED fn_arg
    /\ UNCHANGED <<config_file, batch_vars>>

NextClean == CleanRaw \/ CleanAgain

SpecClean == InitClean /\ [][NextClean]_vars

\* C10: text normalization is idempotent: cleaning the result of clean_text
\* again gives the same text.
C10_CleanTextIdempotent ==
    (pc = "done" /\ Len(fn_ret) = 2) => fn_ret[2] = fn_ret[1]

\* A text with a non-ASCII character between two spaces has been cleaned twice.
C10_Witness ==
    /\ pc = "done"
    /\ Len(fn_ret) = 2
    /\ \E i \in 2..Len(fn_arg) - 1 :
          /\ fn_arg[i] = EACUTE
          /\ fn_arg[i - 1] = " "
          /\ fn_arg[i + 1] = " "
    /\ fn_ret[1] = <<"a", " ", "a">>

\* a character of text: neither whitespace nor removed as non-ASCII
NonBlank(c) == c \notin Whitespace /\ c \notin NonAscii

\* s has two characters of text with exactly two newlines between them
HasParagraphBreak(s) ==
    \E m \in 1..(Len(s) - 3) :
        /\ NonBlank(s[m]) /\ NonBlank(s[m + 3])
        /\ s[m + 1] = "\n" /\ s[m + 2] = "\n"

\* C11: when the input has two pieces of text separated by a run of two or
\* more newlines and nothing else, clean_text keeps them separated by a
\* paragraph break of exactly two newlines.
C11_ParagraphBreaksKept ==
    Len(fn_ret) >= 1 =>
        \A i, j \in 1..Len(fn_arg) :
            (/\ i + 2 < j
             /\ NonBlank(fn_arg[i]) /\ NonBlank(fn_arg[j])
             /\ \A k \in (i + 1)..(j - 1) : fn_arg[k] = "\n")
                => HasParagraphBreak(fn_ret[1])

-----------------------------------------------------------------------------
(* parse_amount applied to a token                                         *)

MaxTokenLen == 3
MaxIntDigits == 7

\* Short tokens over the characters parse_amount treats specially.
TokenChars == {"0", "1", "9", ".", ",", "(", ")", "-", "+", "$", "O", "l", " ", "x"}

\* Whole parts around the thresholds of the shift, with and without a
\* fractional part.
WholeDigits == {"0", "1", "9"}

FracSuffixes ==
    {<<>>, <<".">>, <<".", "0">>, <<".", "0", "0">>, <<".", "0", "1">>, <<".", "9">>}

AmountTokens ==
    SeqsUpTo(TokenChars, MaxTokenLen)
    \cup {w \o f : w \in SeqsUpTo(WholeDigits, MaxIntDigits) \ {<<>>}, f \in FracSuffixes}
    \cup {<<"5", "7", "4", "6", "2">>, <<"5", "0", "0", "0">>,
          <<POUND, "1", ",", "2", "3", "4", ".", "5", "0">>,
          <<"(", "4", "5", ".", "0", "0", ")">>,
          <<"O", "1", "I", ".", "5", "O">>}

InitAmount ==
    /\ pc = "call"
    /\ fn_arg \in AmountTokens
    /\ fn_ret = <<>>
    /\ config_file = ConfigAbsent
    /\ NoBatch

ParseAmount ==
    /\ pc = "call"
    /\ fn_ret' = <<parse_amount(fn_arg)>>
    /\ pc' = "done"
    /\ UNCHANGED fn_arg
    /\ UNCHANGED <<config_file, batch_vars>>

NextAmount == ParseAmount

SpecAmount == InitAmount /\ [][NextAmount]_vars

\* n with two decimals c.
TwoDecimals(n, c) == NatToStr(n) \o <<".", DigitChar(c \div 10), DigitChar(c % 10)>>

\* The part of s before its first ".".
BeforeDot(s) == IF DotIndex(s) = 0 THEN s ELSE SubSeq(s, 1, DotIndex(s) - 1)

AfterDot(s) == IF DotIndex(s) = 0 THEN <<>> ELSE SubSeq(s, DotIndex(s) + 1, Len(s))

\* C9: a token that writes a non-negative whole number n gives n/100 with two
\* decimals exactly when 10000 <= n <= 1000000 and n with two decimals
\* otherwise ("57462" gives "574.62", "5000" gives "5000.00"); a token with a
\* non-zero fractional part keeps its whole part (it is never shifted).
C9_DecimalShift ==
    pc = "done" =>
        LET w == BeforeDot(fn_arg)
            f == AfterDot(fn_arg)
            n == StrToNat(w)
        IN  /\ (w # <<>> /\ AllDigits(w) /\ AllDigits(f) /\ AllZeros(f)) =>
                    fn_ret[1] = IF 10000 <= n /\ n <= 1000000
                                THEN TwoDecimals(n \div 100, n % 100)
                                ELSE TwoDecimals(n, 0)
            /\ (w # <<>> /\ AllDigits(w) /\ AllDigits(f) /\ ~AllZeros(f)) =>
                    BeforeDot(fn_ret[1]) \in {NatToStr(n), NatToStr(n + 1)}
            /\ fn_arg = <<"5", "7", "4", "6", "2">> =>
                    fn_ret[1] = <<"5", "7", "4", ".", "6", "2">>
            /\ fn_arg = <<"5", "0", "0", "0">> =>
                    fn_ret[1] = <<"5", "0", "0", "0", ".", "0", "0">>

\* "57462" has been shifted to "574.62".
C9_Witness ==
    /\ pc = "done"
    /\ fn_arg = <<"5", "7", "4", "6", "2">>
    /\ fn_ret = <<<<"5", "7", "4", ".", "6", "2">>>>

-----------------------------------------------------------------------------
(* validate_data applied to a record                                       *)

Absent == <<"<absent>">>        \* marks a key the record does not have

InvoiceValues == {Absent, <<>>, <<"F", "D", "1">>}

DateValues ==
    {Absent, <<>>,
     <<"0", "4", "/", "0", "8", "/", "2", "0", "2", "5">>,
     <<"4", "/", "8", "/", "2", "0", "2", "5">>,
     <<"3", "1", "/", "0", "2", "/", "2", "0", "2", "5">>,
     <<"2", "0", "2", "5", "-", "0", "8", "-", "0", "4">>}

NetValues == {Absent, <<>>, <<"1", "0", "0", ".", "0", "0">>, <<"a", "b", "c">>}

VatValues == {Absent, <<>>, <<"2", "0", ".", "0", "0">>, <<"x">>}

TotalValues ==
    {Absent, <<>>,
     <<"1", "2", "0", ".", "0", "0">>, <<"1", "2", "0", ".", "0", "2">>,
     <<"1", "2", "0", ".", "0", "3">>, <<"1", "2", ",", "0">>}

ValidatedFields == {"Invoice Number", "Date", "Net", "VAT", "Total"}

\* The record with the keys whose value is not Absent.
RecordOf(values) == [k \in {f \in ValidatedFields : values[f] # Absent} |-> values[k]]

ValidateRecords ==
    {RecordOf([f \in ValidatedFields |->
                  CASE f = "Invoice Number" -> i [] f = "Date" -> d [] f = "Net" -> n
                    [] f = "VAT" -> v [] f = "Total" -> t]) :
        i \in InvoiceValues, d \in DateValues, n \in NetValues,
        v \in VatValues, t \in TotalValues}

InitValidate ==
    /\ pc = "call"
    /\ fn_arg \in ValidateRecords
    /\ fn_ret = <<>>
    /\ config_file = ConfigAbsent
    /\ NoBatch

ValidateRecord ==
    /\ pc = "call"
    /\ \E outcome \in validate_data(fn_arg) : fn_ret' = <<outcome>>
    /\ pc' = "done"
    /\ UNCHANGED fn_arg
    /\ UNCHANGED <<config_file, batch_vars>>

NextValidate == ValidateRecord

SpecValidate == InitValidate /\ [][NextValidate]_vars

\* The required fields of the record that are empty or absent.
EmptyRequired(data) ==
    {f \in {"Invoice Number", "Date", "Net", "Total"} : f \notin DOMAIN data \/ data[f] = <<>>}

SeqRange(q) == {q[i] : i \in 1..Len(q)}

\* C4: a record with an empty or absent required field is rejected with a
\* ValidationError that lists exactly the empty required fields, each once,
\* whatever its amounts and date are; a record with none empty gets no
\* missing-fields rejection.
C4_MissingFieldsListed ==
    pc = "done" =>
        LET out == fn_ret[1]
            empty == EmptyRequired(fn_arg)
        IN  IF empty # {}
            THEN /\ out.raised = "ValidationError"
                 /\ out.message[1] = "Missing required fields"
                 /\ SeqRange(out.message[2]) = empty
                 /\ Len(out.message[2]) = Cardinality(empty)
            ELSE out.message = <<>> \/ out.message[1] # "Missing required fields"

\* A record with two required fields empty and a malformed amount has been
\* rejected for the two fields.
C4_Witness ==
    /\ pc = "done"
    /\ EmptyRequired(fn_arg) = {"Date", "Total"}
    /\ fn_arg["Net"] = <<"a", "b", "c">>
    /\ fn_ret[1].message = <<"Missing required fields", <<"Date", "Total">>>>

IsNumber(str) == ParseFloat(str).ok

\* C5: a record with its required fields present, amounts that parse and a
\* valid date is accepted whatever Net + VAT - Total is; beyond the 0.02
\* tolerance the warning is logged and the record is still accepted.  Net
\* 100.00 and VAT 20.00 are accepted with Total 120.02 and with 120.03.
C5_MismatchOnlyWarns ==
    pc = "done" =>
        LET data == fn_arg
            out == fn_ret[1]
        IN  (/\ EmptyRequired(data) = {}
             /\ "VAT" \in DOMAIN data
             /\ IsNumber(data["Net"]) /\ IsNumber(data["Total"])
             /\ (data["VAT"] = <<>> \/ IsNumber(data["VAT"]))
             /\ Strptime(data["Date"], fmt_dsmsY).ok)
            => /\ out.raised = ""
               /\ (data["Net"] = <<"1", "0", "0", ".", "0", "0">>
                   /\ data["VAT"] = <<"2", "0", ".", "0", "0">>
                   /\ data["Total"] = <<"1", "2", "0", ".", "0", "3">>) => out.warned

\* Net 100.00, VAT 20.00, Total 120.03 has been accepted with the warning.
C5_Witness ==
    /\ pc = "done"
    /\ "VAT" \in DOMAIN fn_arg /\ EmptyRequired(fn_arg) = {}
    /\ fn_arg["Net"] = <<"1", "0", "0", ".", "0", "0">>
    /\ fn_arg["VAT"] = <<"2", "0", ".", "0", "0">>
    /\ fn_arg["Total"] = <<"1", "2", "0", ".", "0", "3">>
    /\ fn_ret[1].raised = ""
    /\ fn_ret[1].warned

-----------------------------------------------------------------------------
(* parse_pdf_content applied to a cleaned text, stage by stage             *)

ParseDocuments == {
    \* Invoice CBM 12345678 Date: 04/08/2025 Net Amount 100.00 VAT Amt 20.00 Total Amount in EUR 120.00
    [company_dir |-> "CamelBrand",
     text |->
         <<"I", "n", "v", "o", "i", "c", "e", " ", "C", "B", "M", " ", "1", "2", "3", "4", "5",
           "6", "7", "8", " ", "D", "a", "t", "e", ":", " ", "0", "4", "/", "0", "8", "/", "2",
           "0", "2", "5", " ", "N", "e", "t", " ", "A", "m", "o", "u", "n", "t", " ", "1", "0",
           "0", ".", "0", "0", " ", "V", "A", "T", " ", "A", "m", "t", " ", "2", "0", ".", "0",
           "0", " ", "T", "o", "t", "a", "l", " ", "A", "m", "o", "u", "n", "t", " ", "i", "n",
           " ", "E", "U", "R", " ", "1", "2", "0", ".", "0", "0">>],
    \* Our Reference: 55555/ Invoice CBM 1234567 Date: 4-Aug-2025 14:13:05 NetAmount E - 0% 57462
    [company_dir |-> "CamelBrand",
     text |->
         <<"O", "u", "r", " ", "R", "e", "f", "e", "r", "e", "n", "c", "e", ":", " ", "5", "5",
           "5", "5", "5", "/", " ", "I", "n", "v", "o", "i", "c", "e", " ", "C", "B", "M", " ",
           "1", "2", "3", "4", "5", "6", "7", " ", "D", "a", "t", "e", ":", " ", "4", "-", "A",
           "u", "g", "-", "2", "0", "2", "5", " ", "1", "4", ":", "1", "3", ":", "0", "5", " ",
           "N", "e", "t", "A", "m", "o", "u", "n", "t", " ", "E", " ", "-", " ", "0", "%", " ",
           "5", "7", "4", "6", "2">>],
    \* Invoice CBM 7654321 Invoice CBM 12345678 4th August 2025 Net: 100.00
    [company_dir |-> "CamelBrand",
     text |->
         <<"I", "n", "v", "o", "i", "c", "e", " ", "C", "B", "M", " ", "7", "6", "5", "4", "3",
           "2", "1", " ", "I", "n", "v", "o", "i", "c", "e", " ", "C", "B", "M", " ", "1", "2",
           "3", "4", "5", "6", "7", "8", " ", "4", "t", "h", " ", "A", "u", "g", "u", "s", "t",
           " ", "2", "0", "2", "5", " ", "N", "e", "t", ":", " ", "1", "0", "0", ".", "0",
           "0">>],
    \* Invoice CBM12345678 Invoice CBM 7654321 Net: 100 VAT: 0
    [company_dir |-> "CamelBrand",
     text |->
         <<"I", "n", "v", "o", "i", "c", "e", " ", "C", "B", "M", "1", "2", "3", "4", "5", "6",
           "7", "8", " ", "I", "n", "v", "o", "i", "c", "e", " ", "C", "B", "M", " ", "7", "6",
           "5", "4", "3", "2", "1", " ", "N", "e", "t", ":", " ", "1", "0", "0", " ", "V", "A",
           "T", ":", " ", "0">>],
    \* Order No 21466292 Invoice cbm 12 Our Reference 55555 Date: 31/02/2025 2025-08-04
    [company_dir |-> "CamelBrand",
     text |->
         <<"O", "r", "d", "e", "r", " ", "N", "o", " ", "2", "1", "4", "6", "6", "2", "9", "2",
           " ", "I", "n", "v", "o", "i", "c", "e", " ", "c", "b", "m", " ", "1", "2", " ", "O",
           "u", "r", " ", "R", "e", "f", "e", "r", "e", "n", "c", "e", " ", "5", "5", "5", "5",
           "5", " ", "D", "a", "t", "e", ":", " ", "3", "1", "/", "0", "2", "/", "2", "0", "2",
           "5", " ", "2", "0", "2", "5", "-", "0", "8", "-", "0", "4">>],
    \* Order No 21466292 Reference 7654321 Net Amount 10.00 VAT Amt 2.00
    [company_dir |-> "CamelBrand",
     text |->
         <<"O", "r", "d", "e", "r", " ", "N", "o", " ", "2", "1", "4", "6", "6", "2", "9", "2",
           " ", "R", "e", "f", "e", "r", "e", "n", "c", "e", " ", "7", "6", "5", "4", "3", "2",
           "1", " ", "N", "e", "t", " ", "A", "m", "o", "u", "n", "t", " ", "1", "0", ".", "0",
           "0", " ", "V", "A", "T", " ", "A", "m", "t", " ", "2", ".", "0", "0">>],
    \* Order No 77886661 Date: 04/08/0999 Total: 120.00
    [company_dir |-> "CamelBrand",
     text |->
         <<"O", "r", "d", "e", "r", " ", "N", "o", " ", "7", "7", "8", "8", "6", "6", "6", "1",
           " ", "D", "a", "t", "e", ":", " ", "0", "4", "/", "0", "8", "/", "0", "9", "9", "9",
           " ", "T", "o", "t", "a", "l", ":", " ", "1", "2", "0", ".", "0", "0">>],
    \* Order No 123456 Our Reference: 1234 Net: 100 Tax (0.00)
    [company_dir |-> "CamelBrand",
     text |->
         <<"O", "r", "d", "e", "r", " ", "N", "o", " ", "1", "2", "3", "4", "5", "6", " ", "O",
           "u", "r", " ", "R", "e", "f", "e", "r", "e", "n", "c", "e", ":", " ", "1", "2", "3",
           "4", " ", "N", "e", "t", ":", " ", "1", "0", "0", " ", "T", "a", "x", " ", "(", "0",
           ".", "0", "0", ")">>],
    \* Invoice No: 789 Date: 04/08/2025 Total , Net 7
    [company_dir |-> "CamelBrand",
     text |->
         <<"I", "n", "v", "o", "i", "c", "e", " ", "N", "o", ":", " ", "7", "8", "9", " ", "D",
           "a", "t", "e", ":", " ", "0", "4", "/", "0", "8", "/", "2", "0", "2", "5", " ", "T",
           "o", "t", "a", "l", " ", ",", " ", "N", "e", "t", " ", "7">>],
    \* Reference 21466292 VAT 20.00
    [company_dir |-> "CamelBrand",
     text |->
         <<"R", "e", "f", "e", "r", "e", "n", "c", "e", " ", "2", "1", "4", "6", "6", "2", "9",
           "2", " ", "V", "A", "T", " ", "2", "0", ".", "0", "0">>],
    \* Invoice No: 789 Invoice FD 123 Date: 04/08/2025 Net Amount 100.00 VAT Amount 20.00 Total 120.03
    [company_dir |-> "Attard&Co",
     text |->
         <<"I", "n", "v", "o", "i", "c", "e", " ", "N", "o", ":", " ", "7", "8", "9", " ", "I",
           "n", "v", "o", "i", "c", "e", " ", "F", "D", " ", "1", "2", "3", " ", "D", "a", "t",
           "e", ":", " ", "0", "4", "/", "0", "8", "/", "2", "0", "2", "5", " ", "N", "e", "t",
           " ", "A", "m", "o", "u", "n", "t", " ", "1", "0", "0", ".", "0", "0", " ", "V", "A",
           "T", " ", "A", "m", "o", "u", "n", "t", " ", "2", "0", ".", "0", "0", " ", "T", "o",
           "t", "a", "l", " ", "1", "2", "0", ".", "0", "3">>],
    \* Invoice FD 123 Net: 100.00
    [company_dir |-> "Attard&Co",
     text |->
         <<"I", "n", "v", "o", "i", "c", "e", " ", "F", "D", " ", "1", "2", "3", " ", "N", "e",
           "t", ":", " ", "1", "0", "0", ".", "0", "0">>],
    \* Reference: 99 Invoice: 55 Invoice No: FD456 4th August 2025 Net: 100 VAT: 0
    [company_dir |-> "Attard&Co",
     text |->
         <<"R", "e", "f", "e", "r", "e", "n", "c", "e", ":", " ", "9", "9", " ", "I", "n", "v",
           "o", "i", "c", "e", ":", " ", "5", "5", " ", "I", "n", "v", "o", "i", "c", "e", " ",
           "N", "o", ":", " ", "F", "D", "4", "5", "6", " ", "4", "t", "h", " ", "A", "u", "g",
           "u", "s", "t", " ", "2", "0", "2", "5", " ", "N", "e", "t", ":", " ", "1", "0", "0",
           " ", "V", "A", "T", ":", " ", "0">>],
    \* Our Reference 4321/ Invoice # 789 Date: 4-Aug-2025 Net: 100.00 VAT: 20.00
    [company_dir |-> "Attard&Co",
     text |->
         <<"O", "u", "r", " ", "R", "e", "f", "e", "r", "e", "n", "c", "e", " ", "4", "3", "2",
           "1", "/", " ", "I", "n", "v", "o", "i", "c", "e", " ", "#", " ", "7", "8", "9", " ",
           "D", "a", "t", "e", ":", " ", "4", "-", "A", "u", "g", "-", "2", "0", "2", "5", " ",
           "N", "e", "t", ":", " ", "1", "0", "0", ".", "0", "0", " ", "V", "A", "T", ":", " ",
           "2", "0", ".", "0", "0">>],
    \* Our Reference 4321/ Reference: 99 2025-08-04 Net , Total ,
    [company_dir |-> "Attard&Co",
     text |->
         <<"O", "u", "r", " ", "R", "e", "f", "e", "r", "e", "n", "c", "e", " ", "4", "3", "2",
           "1", "/", " ", "R", "e", "f", "e", "r", "e", "n", "c", "e", ":", " ", "9", "9", " ",
           "2", "0", "2", "5", "-", "0", "8", "-", "0", "4", " ", "N", "e", "t", " ", ",", " ",
           "T", "o", "t", "a", "l", " ", ",">>],
    \* Invoice CBM 12345678 Date: 04/08/2025 Net: 100.00 Total: 100.00
    [company_dir |-> "Attard&Co",
     text |->
         <<"I", "n", "v", "o", "i", "c", "e", " ", "C", "B", "M", " ", "1", "2", "3", "4", "5",
           "6", "7", "8", " ", "D", "a", "t", "e", ":", " ", "0", "4", "/", "0", "8", "/", "2",
           "0", "2", "5", " ", "N", "e", "t", ":", " ", "1", "0", "0", ".", "0", "0", " ", "T",
           "o", "t", "a", "l", ":", " ", "1", "0", "0", ".", "0", "0">>],
    \* invoice fd 123 Date Due: 1/2/2025 Net: 5 VAT: 0.00 Total: 7
    [company_dir |-> "Attard&Co",
     text |->
         <<"i", "n", "v", "o", "i", "c", "e", " ", "f", "d", " ", "1", "2", "3", " ", "D", "a",
           "t", "e", " ", "D", "u", "e", ":", " ", "1", "/", "2", "/", "2", "0", "2", "5", " ",
           "N", "e", "t", ":", " ", "5", " ", "V", "A", "T", ":", " ", "0", ".", "0", "0", " ",
           "T", "o", "t", "a", "l", ":", " ", "7">>],
    \* Invoice Number: 1 Date: 4-8-25 Amount 12
    [company_dir |-> "",
     text |->
         <<"I", "n", "v", "o", "i", "c", "e", " ", "N", "u", "m", "b", "e", "r", ":", " ", "1",
           " ", "D", "a", "t", "e", ":", " ", "4", "-", "8", "-", "2", "5", " ", "A", "m", "o",
           "u", "n", "t", " ", "1", "2">>],
    \* Invoice: 55 Invoice No. 789 Date: 04/08/2025
    [company_dir |-> "",
     text |->
         <<"I", "n", "v", "o", "i", "c", "e", ":", " ", "5", "5", " ", "I", "n", "v", "o", "i",
           "c", "e", " ", "N", "o", ".", " ", "7", "8", "9", " ", "D", "a", "t", "e", ":", " ",
           "0", "4", "/", "0", "8", "/", "2", "0", "2", "5">>],
    \* Hello
    [company_dir |-> "",
     text |->
         <<"H", "e", "l", "l", "o">>]
}

\* The date forms of the matrix, as the document gives them after "Date: ".
Form_04_08_2025 ==
    <<"0", "4", "/", "0", "8", "/", "2", "0", "2", "5">>

Form_4_Aug_2025_time ==
    <<"4", "-", "A", "u", "g", "-", "2", "0", "2", "5", " ", "1", "4", ":", "1", "3", ":", "0",
      "5">>

Form_4th_August_2025 ==
    <<"4", "t", "h", " ", "A", "u", "g", "u", "s", "t", " ", "2", "0", "2", "5">>

Form_2025_08_04 ==
    <<"2", "0", "2", "5", "-", "0", "8", "-", "0", "4">>

DateForms == {Form_04_08_2025, Form_4_Aug_2025_time, Form_4th_August_2025, Form_2025_08_04}

DateLabel == <<"D", "a", "t", "e", ":", " ">>

\* One document for each form: 'Date: ' followed by the form.
MatrixDocuments == {[company_dir |-> "", text |-> DateLabel \o form] : form \in DateForms}

FD123 == <<"F", "D", "1", "2", "3">>
CBM12345678 == <<"C", "B", "M", "1", "2", "3", "4", "5", "6", "7", "8">>
Date_01_01_2020 == <<"0", "1", "/", "0", "1", "/", "2", "0", "2", "0">>
Date_4_8_2025 == <<"4", "/", "8", "/", "2", "0", "2", "5">>
Date_04_08_2025 == <<"0", "4", "/", "0", "8", "/", "2", "0", "2", "5">>

\* A config.json with date overrides, a customer and a supplier name.
OverridesConfig ==
    ("date_overrides" :> ((FD123 :> Date_01_01_2020) @@ (CBM12345678 :> Date_4_8_2025)))
    @@ ("customer" :> "ACME") @@ ("suppliers" :> ("CamelBrand" :> "Camel Brand Ltd"))

ParseConfigs == {ConfigAbsent, ConfigInvalid, ConfigWith(EmptyDict), ConfigWith(OverridesConfig)}

InitParse ==
    /\ pc = "load_config"
    /\ fn_arg \in ParseDocuments \cup MatrixDocuments
    /\ fn_ret = <<>>
    /\ config_file \in ParseConfigs
    /\ NoBatch

\* The dictionary load_config returned to the call in progress.
config == load_config(config_file).value

\* Lines 129-148
ParseLoadConfig ==
    /\ pc = "load_config"
    /\ IF load_config(config_file).raised # ""
       THEN pc' = "raised" /\ UNCHANGED fn_ret
       ELSE pc' = "invoice" /\ fn_ret' = NewRecord(config, fn_arg.company_dir)
    /\ UNCHANGED <<fn_arg, config_file, batch_vars>>

\* Lines 151-206
ParseInvoiceNumber ==
    /\ pc = "invoice"
    /\ fn_ret' = [fn_ret EXCEPT !["Invoice Number"] = InvoiceNumber(fn_arg.text, fn_arg.company_dir)]
    /\ pc' = "date"
    /\ UNCHANGED <<fn_arg, config_file, batch_vars>>

\* Lines 235-250
ParseDate ==
    /\ pc = "date"
    /\ \E date \in ExtractDate(fn_arg.text) : fn_ret' = [fn_ret EXCEPT !["Date"] = date]
    /\ pc' = "override"
    /\ UNCHANGED <<fn_arg, config_file, batch_vars>>

\* Lines 253-254
ParseDateOverride ==
    /\ pc = "override"
    /\ fn_ret' = OverrideDate(fn_ret, config)
    /\ pc' = "amounts"
    /\ UNCHANGED <<fn_arg, config_file, batch_vars>>

\* Lines 317-326
ParseAmounts ==
    /\ pc = "amounts"
    /\ fn_ret' = ExtractAmounts(fn_ret, fn_arg.text)
    /\ pc' = "fallback"
    /\ UNCHANGED <<fn_arg, config_file, batch_vars>>

\* Lines 329-333
ParseTotalFallback ==
    /\ pc = "fallback"
    /\ IF TotalFallbackRaises(fn_ret)
       THEN pc' = "raised" /\ UNCHANGED fn_ret
       ELSE pc' = "return" /\ fn_ret' = TotalFallback(fn_ret)
    /\ UNCHANGED <<fn_arg, config_file, batch_vars>>

\* Lines 336-415
ParseReturn ==
    /\ pc = "return"
    /\ fn_ret' = SetCustomer(fn_ret)
    /\ pc' = "done"
    /\ UNCHANGED <<fn_arg, config_file, batch_vars>>

NextParse ==
    \/ ParseLoadConfig
    \/ ParseInvoiceNumber
    \/ ParseDate
    \/ ParseDateOverride
    \/ ParseAmounts
    \/ ParseTotalFallback
    \/ ParseReturn

SpecParse == InitParse /\ [][NextParse]_vars

\* C6: when the resolved invoice number is a key of date_overrides, the
\* override stage sets Date to the override value, whatever date the text
\* gave (or none); when it is not a key, Date stays the extracted date; and
\* no later stage changes the Date again.
C6_DateOverride ==
    [][/\ pc = "override" =>
            LET inv == fn_ret["Invoice Number"]
                date_overrides == Get(config, "date_overrides", EmptyDict)
            IN  fn_ret'["Date"] = IF inv \in DOMAIN date_overrides
                                  THEN date_overrides[inv]
                                  ELSE fn_ret["Date"]
       /\ pc \in {"amounts", "fallback", "return"} => fn_ret'["Date"] = fn_ret["Date"]
      ]_vars

\* The text gave the date 04/08/2025 for invoice FD123 and the record holds
\* the override 01/01/2020.
C6_Witness ==
    /\ pc = "done"
    /\ fn_ret["Invoice Number"] = FD123
    /\ fn_ret["Date"] = Date_01_01_2020
    /\ FD123 \in DOMAIN Get(config, "date_overrides", EmptyDict)
    /\ Get(config, "date_overrides", EmptyDict)[FD123] = Date_01_01_2020
    /\ ExtractDate(fn_arg.text) = {Date_04_08_2025}

\* C12: for each of the forms "04/08/2025", "4-Aug-2025 14:13:05",
\* "4th August 2025" and "2025-08-04" given as the date of the document,
\* the date stage sets Date to "04/08/2025".
C12_DateMatrix ==
    (fn_arg \in MatrixDocuments /\ pc = "override") => fn_ret["Date"] = Date_04_08_2025

\* What the i-th date pattern captures in the text, ordinals stripped.
DateString(i, text) ==
    StripOrdinals(Group(text, ReSearch(date_patterns[i].re, text), "1"))

\* The i-th date pattern matches the text and its k-th format parses what
\* it captured.
Parses(i, k, text) ==
    /\ ReSearch(date_patterns[i].re, text).ok
    /\ Strptime(DateString(i, text), date_patterns[i].formats[k]).ok

\* The date patterns that match the text with a format that parses.
Producing(text) ==
    {i \in 1..Len(date_patterns) :
        \E k \in 1..Len(date_patterns[i].formats) : Parses(i, k, text)}

\* C13: after the date stage, Date is the date of the first pattern, in list
\* order, that matches the text with a format that parses its
\* ordinal-stripped match, by the first such format; patterns before it
\* that match without a format that parses do not end the search, patterns
\* after it change nothing; Date is empty when no pattern produces a date.
C13_DateChain ==
    pc = "override" =>
        IF Producing(fn_arg.text) = {} THEN fn_ret["Date"] = <<>>
        ELSE \E i \in Producing(fn_arg.text) :
               \E k \in 1..Len(date_patterns[i].formats) :
                 /\ \A j \in 1..(i - 1) : j \notin Producing(fn_arg.text)
                 /\ Parses(i, k, fn_arg.text)
                 /\ \A l \in 1..(k - 1) : ~Parses(i, l, fn_arg.text)
                 /\ \E pads \in BOOLEAN :
                       fn_ret["Date"] =
                         Strftime(Strptime(DateString(i, fn_arg.text),
                                           date_patterns[i].formats[k]), pads)

\* The first date pattern matched '31/02/2025', which no format parses, and
\* the date came from the last pattern.
C13_Witness ==
    /\ pc = "override"
    /\ ReSearch(date_patterns[1].re, fn_arg.text).ok
    /\ 1 \notin Producing(fn_arg.text)
    /\ Producing(fn_arg.text) = {Len(date_patterns)}
    /\ fn_ret["Date"] = Date_04_08_2025

\* C14: the Customer of the record parse_pdf_content returns is the customer
\* of the loaded configuration; only a configuration without a customer
\* leaves it to a built-in default (the '' of line 134 or the name of the
\* default configuration).
C14_CustomerFromConfig ==
    pc = "done" =>
        IF "customer" \in DOMAIN config
        THEN fn_ret["Customer"] = config["customer"]
        ELSE fn_ret["Customer"] \in {"", DefaultConfig["customer"]}

\* The patterns of a list that match the text.
Matching(patterns, text) == {i \in 1..Len(patterns) : ReSearch(patterns[i], text).ok}


\* What the pattern captures in the text, with the supplier's prefix.
Captured(pattern, text, company_dir) ==
    LET digits == Group(text, ReSearch(pattern, text), "1")
    IN  IF company_dir = "CamelBrand" THEN CBM \o digits
        ELSE IF StartsWith(digits, FD) THEN digits ELSE FD \o digits

\* C7: when two or more patterns of the company's chain match the text, the
\* invoice number is the one the first of them in list order captures,
\* wherever the matches lie in the text; for CamelBrand a matching "Invoice
\* CBM" pattern wins over every fallback pattern; and the number stays what
\* it is once set.
C7_InvoiceNumberPriority ==
    pc \in {"date", "override", "amounts", "fallback", "return", "done"} =>
        LET company_dir == fn_arg.company_dir
            chain == IF company_dir = "CamelBrand"
                     THEN cbm_specific_patterns \o fallback_patterns
                     ELSE fd_patterns
            matching == Matching(chain, fn_arg.text)
            labelled == matching \cap (1..Len(cbm_specific_patterns))
        IN  /\ Cardinality(matching) >= 2 =>
                fn_ret["Invoice Number"] = Captured(chain[Min(matching)], fn_arg.text, company_dir)
            /\ (company_dir = "CamelBrand" /\ labelled # {}) =>
                fn_ret["Invoice Number"] = Captured(chain[Min(labelled)], fn_arg.text, company_dir)

\* A CamelBrand text whose "Our Reference" number comes before its "Invoice
\* CBM" number: the invoice number is the labelled one.
C7_Witness ==
    /\ pc = "date"
    /\ fn_arg.company_dir = "CamelBrand"
    /\ fn_ret["Invoice Number"] = <<"C", "B", "M", "1", "2", "3", "4", "5", "6", "7">>
    /\ SubSeq(fn_arg.text, 1, 3) = <<"O", "u", "r">>
    /\ ReSearch(fallback_patterns[1], fn_arg.text).ok
    /\ ReSearch(cbm_specific_patterns[3], fn_arg.text).ok

\* C8: the stage after amount extraction sets an empty Total to Net when
\* Net is not empty and VAT is empty or zero, leaves a Total that is not
\* empty as it is, and leaves Total empty when Net is empty or VAT is not
\* zero.
C8_TotalFromNet ==
    [][pc = "fallback" =>
          LET net == fn_ret["Net"]
              vat == fn_ret["VAT"]
              total == fn_ret["Total"]
              vat_zero == vat = <<>> \/ Cents(ParseFloat(vat)) = 0
          IN  /\ pc' = "return"
              /\ (total = <<>> /\ net # <<>> /\ vat_zero) => fn_ret'["Total"] = net
              /\ total # <<>> => fn_ret'["Total"] = total
              /\ (total = <<>> /\ (net = <<>> \/ ~vat_zero)) => fn_ret'["Total"] = <<>>
      ]_vars

\* Net 100.00, no VAT and no Total in the text: the record's Total is 100.00.
C8_Witness ==
    /\ pc = "return"
    /\ fn_ret["Net"] = <<"1", "0", "0", ".", "0", "0">>
    /\ fn_ret["VAT"] = <<>>
    /\ fn_ret["Total"] = <<"1", "0", "0", ".", "0", "0">>
    /\ ~FirstMatch(total_patterns, fn_arg.text).ok

-----------------------------------------------------------------------------
(* process_pdfs: the batch loop                                            *)
(*                                                                         *)
(* A document is a file under Resources: its path relative to Resources,   *)
(* the directory part of the path, whether PdfReader can read it, and the  *)
(* text its pages give.  The files written are kept as the sequence of     *)
(* what was written, without the timestamps and the file names.            *)

\* a readable invoice with every field: 'Invoice FD 123\nDate: 04/08/2025\nNet Amount 100.00  VAT Amount 20.00 Total 120.00'
DocGood ==
    [path |-> "Attard&Co/a.pdf", company_dir |-> "Attard&Co", readable |-> TRUE,
     raw |->
         <<"I", "n", "v", "o", "i", "c", "e", " ", "F", "D", " ", "1", "2", "3", "\n", "D",
           "a", "t", "e", ":", " ", "0", "4", "/", "0", "8", "/", "2", "0", "2", "5", "\n",
           "N", "e", "t", " ", "A", "m", "o", "u", "n", "t", " ", "1", "0", "0", ".", "0", "0",
           " ", " ", "V", "A", "T", " ", "A", "m", "o", "u", "n", "t", " ", "2", "0", ".", "0",
           "0", " ", "T", "o", "t", "a", "l", " ", "1", "2", "0", ".", "0", "0">>]

\* a readable invoice without a date: 'Invoice CBM 12345678\nNet: 100.00'
DocNoDate ==
    [path |-> "CamelBrand/b.pdf", company_dir |-> "CamelBrand", readable |-> TRUE,
     raw |->
         <<"I", "n", "v", "o", "i", "c", "e", " ", "C", "B", "M", " ", "1", "2", "3", "4", "5",
           "6", "7", "8", "\n", "N", "e", "t", ":", " ", "1", "0", "0", ".", "0", "0">>]

\* a document whose pages hold only whitespace: ' \n'
DocBlank ==
    [path |-> "c.pdf", company_dir |-> "", readable |-> TRUE,
     raw |->
         <<" ", "\n">>]

\* a file PdfReader cannot read
DocUnreadable ==
    [path |-> "Attard&Co/d.pdf", company_dir |-> "Attard&Co", readable |-> FALSE,
     raw |->
         <<>>]

NoTextExtracted ==
    <<"N", "o", " ", "t", "e", "x", "t", " ", "e", "x", "t", "r", "a", "c", "t", "e", "d">>

NoTextContent ==
    <<"N", "o", " ", "t", "e", "x", "t", " ", "c", "o", "n", "t", "e", "n", "t", " ", "e", "x",
      "t", "r", "a", "c", "t", "e", "d", " ", "f", "r", "o", "m", " ", "P", "D", "F">>

MaxFiles == 2

BatchDocuments == {DocGood, DocNoDate, DocBlank, DocUnreadable}

\* Lines 427-434: os.walk gives the files of Resources itself first, then
\* those of each directory together; the order among directories and among
\* the files of one directory is the file system's.
WalkOrder(fs) ==
    /\ \A i, j \in 1..Len(fs) : i # j => fs[i] # fs[j]
    /\ \A i, j \in 1..Len(fs) : (i < j /\ fs[j].company_dir = "") => fs[i].company_dir = ""
    /\ \A i, j, k \in 1..Len(fs) :
          (i < j /\ j < k /\ fs[i].company_dir = fs[k].company_dir)
              => fs[j].company_dir = fs[i].company_dir

FileLists == {fs \in SeqsUpTo(BatchDocuments, MaxFiles) : WalkOrder(fs)}

BatchConfigs == {ConfigAbsent, ConfigInvalid, ConfigWith(OverridesConfig)}

Init ==
    /\ pc = "list_files"
    /\ fn_arg = <<>> /\ fn_ret = <<>>
    /\ config_file \in BatchConfigs
    /\ pdf_files \in FileLists
    /\ idx = 0
    /\ loc_text = <<>> /\ loc_data = <<>> /\ exc = <<>>
    /\ success_count = 0 /\ error_count = 0
    /\ output = <<>>

Exception(type, message) == [type |-> type, message |-> message]

\* Only ValidationError goes to the first handler; the rest is not caught.
Caught_validation_only(e) ==
    IF e.type = "ValidationError" THEN "except_validation" ELSE "uncaught"

\* Lines 529 and 562: the except clause that takes the exception.  Every
\* exception raised in the try block derives from Exception.
Caught(e) ==
    IF e.type = "ValidationError" THEN "except_validation" ELSE "except"

\* text[:n]
Take(s, n) == SubSeq(s, 1, IF Len(s) < n THEN Len(s) ELSE n)

\* Lines 427-444
ListFiles ==
    /\ pc = "list_files"
    /\ IF pdf_files = <<>>
       THEN pc' = "done" /\ UNCHANGED idx
       ELSE pc' = "extract" /\ idx' = 1
    /\ UNCHANGED <<fn_arg, fn_ret, config_file, pdf_files, loc_text, loc_data, exc,
                   success_count, error_count, output>>

\* Lines 454-458: extract_text_from_pdf and the check for text.  When the
\* reader raises, text keeps what it was bound to before.
ExtractText ==
    /\ pc = "extract"
    /\ LET doc == pdf_files[idx]
       IN  IF ~doc.readable
           THEN /\ exc' = <<Exception("PdfReadError", <<>>)>>
                /\ pc' = Caught(exc'[1])
                /\ UNCHANGED loc_text
           ELSE /\ loc_text' = <<doc.raw>>
                /\ IF Strip(doc.raw) = <<>>
                   THEN /\ exc' = <<Exception("ValueError", NoTextContent)>>
                        /\ pc' = Caught(exc'[1])
                   ELSE pc' = "parse" /\ UNCHANGED exc
    /\ UNCHANGED <<fn_arg, fn_ret, config_file, pdf_files, idx, loc_data,
                   success_count, error_count, output>>

\* Lines 463-470: clean_text, then parse_pdf_content, which loads config.json.
CleanAndParse ==
    /\ pc = "parse"
    /\ loc_text' = <<clean_text(loc_text[1])>>
    /\ \E o \in parse_pdf_content(loc_text'[1], pdf_files[idx].company_dir, config_file) :
         IF o.raised # ""
         THEN /\ exc' = <<Exception(o.raised, <<>>)>>
              /\ pc' = Caught(exc'[1])
              /\ UNCHANGED loc_data
         ELSE /\ loc_data' = <<o.data>>
              /\ pc' = "validate"
              /\ UNCHANGED exc
    /\ UNCHANGED <<fn_arg, fn_ret, config_file, pdf_files, idx,
                   success_count, error_count, output>>

\* Line 473
Validate ==
    /\ pc = "validate"
    /\ \E o \in validate_data(loc_data[1]) :
         IF o.raised # ""
         THEN /\ exc' = <<Exception(o.raised, o.message)>>
              /\ pc' = Caught(exc'[1])
         ELSE pc' = "write" /\ UNCHANGED exc
    /\ UNCHANGED <<fn_arg, fn_ret, config_file, pdf_files, idx, loc_text, loc_data,
                   success_count, error_count, output>>

\* The record and its metadata are written and the document is not counted.
WriteSuccess_not_counted ==
    /\ pc = "write"
    /\ output' = output \o
         <<[kind |-> "invoice", source_file |-> pdf_files[idx].path, data |-> loc_data[1]],
           [kind |-> "metadata", source_file |-> pdf_files[idx].path,
            invoice_number |-> Get(loc_data[1], "Invoice Number", <<>>),
            supplier |-> Get(loc_data[1], "Supplier", ""),
            processing_status |-> "success"]>>
    /\ pc' = "next"
    /\ UNCHANGED <<fn_arg, fn_ret, config_file, pdf_files, idx, loc_text, loc_data, exc,
                   success_count, error_count>>

\* Lines 476-527: the record and its metadata are written, then the
\* document is counted.
WriteSuccess ==
    /\ pc = "write"
    /\ output' = output \o
         <<[kind |-> "invoice", source_file |-> pdf_files[idx].path, data |-> loc_data[1]],
           [kind |-> "metadata", source_file |-> pdf_files[idx].path,
            invoice_number |-> Get(loc_data[1], "Invoice Number", <<>>),
            supplier |-> Get(loc_data[1], "Supplier", ""),
            processing_status |-> "success"]>>
    /\ success_count' = success_count + 1
    /\ pc' = "next"
    /\ UNCHANGED <<fn_arg, fn_ret, config_file, pdf_files, idx, loc_text, loc_data, exc,
                   error_count>>

\* Lines 529-560
HandleValidationError ==
    /\ pc = "except_validation"
    /\ error_count' = error_count + 1
    /\ output' = output \o
         <<[kind |-> "error", error_type |-> "Validation Error",
            error_message |-> exc[1].message, source_file |-> pdf_files[idx].path,
            extracted_data |-> loc_data[1],
            text_sample |-> IF loc_text[1] # <<>> THEN Take(loc_text[1], 1000)
                            ELSE NoTextExtracted,
            company_directory |-> pdf_files[idx].company_dir],
           [kind |-> "error_metadata", source_file |-> pdf_files[idx].path,
            invoice_number |-> IF loc_data # <<>>
                               THEN Get(loc_data[1], "Invoice Number", <<>>) ELSE <<>>,
            supplier |-> IF loc_data # <<>> THEN Get(loc_data[1], "Supplier", "") ELSE "",
            processing_status |-> "validation_error",
            error_message |-> exc[1].message]>>
    /\ exc' = <<>>
    /\ pc' = "next"
    /\ UNCHANGED <<fn_arg, fn_ret, config_file, pdf_files, idx, loc_text, loc_data,
                   success_count>>

\* Lines 562-594: data and text are looked up in locals(), where an earlier
\* pass of the loop may have left them.
HandleException ==
    /\ pc = "except"
    /\ error_count' = error_count + 1
    /\ LET data_bound == loc_data # <<>>
           data_truthy == data_bound /\ DOMAIN loc_data[1] # {}
       IN  output' = output \o
             <<[kind |-> "error", error_type |-> exc[1].type,
                error_message |-> exc[1].message, source_file |-> pdf_files[idx].path,
                extracted_data |-> IF data_bound THEN loc_data[1] ELSE EmptyDict,
                text_sample |-> IF loc_text # <<>> /\ loc_text[1] # <<>>
                                THEN Take(loc_text[1], 1000) ELSE NoTextExtracted,
                company_directory |-> pdf_files[idx].company_dir],
               [kind |-> "error_metadata", source_file |-> pdf_files[idx].path,
                invoice_number |-> IF data_truthy
                                   THEN Get(loc_data[1], "Invoice Number", <<>>) ELSE <<>>,
                supplier |-> IF data_truthy THEN Get(loc_data[1], "Supplier", "") ELSE "",
                processing_status |-> "processing_error",
                error_message |-> exc[1].message]>>
    /\ exc' = <<>>
    /\ pc' = "next"
    /\ UNCHANGED <<fn_arg, fn_ret, config_file, pdf_files, idx, loc_text, loc_data,
                   success_count>>

\* Line 446: the for loop takes the next file, or ends.
NextDocument ==
    /\ pc = "next"
    /\ IF idx < Len(pdf_files)
       THEN idx' = idx + 1 /\ pc' = "extract"
       ELSE pc' = "summary" /\ UNCHANGED idx
    /\ UNCHANGED <<fn_arg, fn_ret, config_file, pdf_files, loc_text, loc_data, exc,
                   success_count, error_count, output>>

\* Lines 596-599
LogSummary ==
    /\ pc = "summary"
    /\ pc' = "done"
    /\ UNCHANGED <<fn_arg, fn_ret, config_file, batch_vars>>

Next ==
    \/ ListFiles
    \/ ExtractText
    \/ CleanAndParse
    \/ Validate
    \/ WriteSuccess
    \/ HandleValidationError
    \/ HandleException
    \/ NextDocument
    \/ LogSummary

Spec == Init /\ [][Next]_vars

\* process_pdfs is one sequential program: it takes its next step as long
\* as it has one.  CleanAndParse and Validate have a step exactly when pc
\* is at them (parse_pdf_content and validate_data always raise or return),
\* so their weak fairness is written with that guard for ENABLED.
FairSpec ==
    /\ Spec
    /\ WF_vars(ListFiles)
    /\ WF_vars(ExtractText)
    /\ []<>(pc # "parse") \/ []<><<CleanAndParse>>_vars
    /\ []<>(pc # "validate") \/ []<><<Validate>>_vars
    /\ WF_vars(WriteSuccess)
    /\ WF_vars(HandleValidationError)
    /\ WF_vars(HandleException)
    /\ WF_vars(NextDocument)
    /\ WF_vars(LogSummary)

-----------------------------------------------------------------------------
(* Properties of the batch loop                                            *)

\* an exception raised for the k-th document is on its way to a handler
Failing(k) == idx = k /\ exc # <<>>

\* an error artifact was written for the k-th document
ErrorRecorded(k) ==
    \E i \in 1..Len(output) :
        output[i].kind = "error" /\ output[i].source_file = pdf_files[k].path

\* the j-th document went through the loop: its record or its error
\* artifact was written
Processed(j) ==
    \E i \in 1..Len(output) :
        /\ output[i].kind \in {"invoice", "error"}
        /\ output[i].source_file = pdf_files[j].path

\* C1: when processing of a document fails (no text, a validation
\* rejection, any other exception), the exception is caught in the loop, an
\* error artifact is written for that document, every document of the list
\* is still processed and the run reaches its end.
C1_BatchIsolation ==
    \A k \in 1..MaxFiles :
        Failing(k) ~> (/\ pc = "done"
                       /\ k <= Len(pdf_files)
                       /\ ErrorRecorded(k)
                       /\ \A j \in 1..Len(pdf_files) : Processed(j))

\* A run of two documents has ended: the first failed and has its error
\* artifact, the second was processed after it and has its record.
C1_Witness ==
    /\ pc = "done"
    /\ Len(pdf_files) = 2
    /\ ErrorRecorded(1)
    /\ \E i \in 1..Len(output) :
          output[i].kind = "invoice" /\ output[i].source_file = pdf_files[2].path
    /\ success_count = 1 /\ error_count = 1

\* C2: with config.json present and not parseable the run aborts before
\* any document is processed: nothing is written, neither counter is
\* incremented, and the failure to load it never reaches a handler of the
\* loop.
C2_InvalidConfigAborts ==
    config_file.state = "invalid" =>
        /\ output = <<>>
        /\ success_count = 0 /\ error_count = 0
        /\ ~(pc = "except" /\ exc[1].type = "JSONDecodeError")

\* The text samples the document at path can give: its text as extracted,
\* its text cleaned, or the note that there is none.
OwnSamples(path) ==
    LET doc == CHOOSE d \in BatchDocuments : d.path = path
    IN  {NoTextExtracted, Take(doc.raw, 1000), Take(clean_text(doc.raw), 1000)}

\* C3: the error artifact of a document that failed before its record was
\* assembled holds an empty record, a text sample of that document, and no
\* invoice number or supplier in its metadata, whatever was processed
\* before it.
C3_ErrorArtifactOwnDocument ==
    \A i \in 1..Len(output) :
        /\ (output[i].kind = "error" /\ output[i].error_type # "Validation Error") =>
              /\ DOMAIN output[i].extracted_data = {}
              /\ output[i].text_sample \in OwnSamples(output[i].source_file)
        /\ (output[i].kind = "error_metadata"
              /\ output[i].processing_status = "processing_error") =>
              /\ output[i].invoice_number = <<>>
              /\ output[i].supplier = ""

\* dd/mm/yyyy: two digits, '/', two digits, '/', four digits.
CanonicalDate(d) ==
    /\ Len(d) = 10
    /\ d[3] = "/" /\ d[6] = "/"
    /\ \A i \in {1, 2, 4, 5, 7, 8, 9, 10} : d[i] \in Digits

\* The records written to the output directory.
SuccessRecords == {output[i].data : i \in {j \in 1..Len(output) : output[j].kind = "invoice"}}

\* C15: every record written as a success artifact is one validate_data
\* accepts, and its Date is in the canonical form dd/mm/yyyy, whatever the
\* texts and the configuration (date_overrides included).
C15_SuccessRecordsCanonical ==
    \A data \in SuccessRecords :
        /\ \A o \in validate_data(data) : o.raised = ""
        /\ CanonicalDate(data["Date"])
\* The documents of the list that are handled: those before the current
\* one, and the current one once its artifacts are written.
Handled ==
    CASE pc = "list_files" -> 0
      [] pc \in {"extract", "parse", "validate", "write", "except_validation", "except"}
           -> idx - 1
      [] pc = "next" -> idx
      [] pc \in {"summary", "done"} -> Len(pdf_files)

\* The artifacts of one kind written for a file.
Written(kind, path) ==
    {i \in 1..Len(output) : output[i].kind = kind /\ output[i].source_file = path}

\* The place of a file in the list.
Place(path) == CHOOSE i \in 1..Len(pdf_files) : pdf_files[i].path = path

\* The handled documents are counted once each, as a success with the
\* record and the metadata written, or as a failure with the error report
\* written, never both; the artifacts follow the order of the list and none
\* is written for a document not yet reached.
CountedOnce ==
    /\ success_count + error_count = Handled
    /\ \A k \in 1..Len(pdf_files) :
         LET path == pdf_files[k].path
             succeeded == Cardinality(Written("invoice", path))
             failed == Cardinality(Written("error", path))
         IN  /\ succeeded = Cardinality(Written("metadata", path))
             /\ failed = Cardinality(Written("error_metadata", path))
             /\ succeeded + failed = IF k <= Handled THEN 1 ELSE 0
    /\ success_count =
         Cardinality({i \in 1..Len(output) : output[i].kind = "invoice"})
    /\ error_count =
         Cardinality({i \in 1..Len(output) : output[i].kind = "error"})
    /\ \A i, j \in 1..Len(output) :
         i < j => Place(output[i].source_file) <= Place(output[j].source_file)

\* One step handles at most the current document: the counters never
\* decrease, at most one of them grows, by one, and success_count grows
\* only in the step that has written the record and the metadata of the
\* current document.
CountedInOrder ==
    /\ success_count' >= success_count /\ error_count' >= error_count
    /\ (success_count' + error_count') - (success_count + error_count) \in {0, 1}
    /\ idx' \in {idx, idx + 1}
    /\ success_count' > success_count =>
         /\ Written("invoice", pdf_files[idx].path) = {}
         /\ Written("invoice", pdf_files[idx].path)' # {}
         /\ Written("metadata", pdf_files[idx].path)' # {}

\* C16: in a batch run the documents are processed one at a time in list
\* order and each is counted exactly once: when k documents are handled
\* success_count + error_count = k, the counters never decrease,
\* success_count grows only with the record and metadata written, no
\* document is both a failure and a success, and at the summary the counts
\* sum to the number of documents.
C16_EachDocumentCountedOnce == []CountedOnce /\ [][CountedInOrder]_vars

\* A run of two documents ended with one success and one failure.
C16_Witness ==
    /\ pc = "done"
    /\ Len(pdf_files) = MaxFiles
    /\ success_count = 1 /\ error_count = 1
====
